---- MODULE Spec2Model ----
(***************************************************************************)
(* Verification model of the zotero-AI plugin: the OpenAI transport         *)
(* (utils/openai.ts), the PDF attachment resolver (utils/zoteroFiles.ts),   *)
(* the bottom composer (ui/chatNoteComposer.ts) and the chat dialog         *)
(* (modules/aiChat.ts).                                                     *)
(*                                                                         *)
(* Every asynchronous function is cut at its awaits: the synchronous code   *)
(* between two awaits is one atomic action, as the single-threaded event    *)
(* loop runs it.  A "task" is one running invocation of an async function.  *)
(***************************************************************************)
EXTENDS Integers, Sequences, FiniteSets, TLC

VARIABLES
    task,          \* Tasks -> the invocation running in that slot (or idle)
    isInserting,   \* chatNoteComposer.ts: module flag of onInsertClick
    textarea,      \* textareaEl.value
    insertBtn,     \* insertBtnEl: [disabled, label]
    notices,       \* the message of the last notify() or window.alert() ("" before the first)
    activeNote,    \* chatNoteComposer.ts: activeNote (NoItem = null)
    noteBlocks,    \* number of chat blocks saved to the chat note
    prefs,         \* preference store: llmKey, openaiApiKey
    selection,     \* ids of the items selected in the active pane, in order
    dlgKey,        \* dialog: key input (bound to data.key)
    dlgPrompt,     \* dialog: prompt textarea
    dlgOutput,     \* dialog: output textarea
    ignored,       \* re-entrant composer clicks dropped by the guard, capped
    chatNote,      \* the chat note: its body, and the body and count a run of appends started from
    win            \* the main window: its document, and the state of the toolbar modules

vars == << task, isInserting, textarea, insertBtn, notices, activeNote,
           noteBlocks, prefs, selection, dlgKey, dlgPrompt,
           dlgOutput, ignored, chatNote, win >>

-----------------------------------------------------------------------------
(* Bounds *)

MaxTasks == 2      \* invocations that may overlap
MaxText == 2       \* longest text a direct caller passes
MaxTyped == 1      \* longest text typed into a text field
MaxBlocks == 1     \* chat blocks appended to the note
MaxIgnored == 1    \* re-entrant clicks counted
MaxSel == 2        \* items selected at once
MaxB64 == 4        \* characters of a text given to normalizeBase64
MaxAppends == 2    \* calls of appendChatExchange on the chat note
MaxButtons == 2    \* calls of onMainWindowLoad and of registerChatNoteToolbarButton
MaxCreates == 2    \* calls of createChatNoteForParent

Tasks == 1 .. MaxTasks

-----------------------------------------------------------------------------
(* Texts are sequences of one-character strings, so that trim() is computed *)

Chars == {" ", "h"}

RECURSIVE SeqsUpTo(_, _)
SeqsUpTo(S, n) ==
    IF n = 0 THEN {<< >>}
    ELSE LET shorter == SeqsUpTo(S, n - 1)
         IN  shorter \cup {Append(s, c) : s \in {t \in shorter : Len(t) = n - 1}, c \in S}

Texts == SeqsUpTo(Chars, MaxText)
Typed == SeqsUpTo(Chars, MaxTyped)

IsSpace(c) == c \in {" ", "\n", "\t", "\r"}

RECURSIVE TrimStart(_)
TrimStart(s) == IF s # << >> /\ IsSpace(Head(s)) THEN TrimStart(Tail(s)) ELSE s

RECURSIVE TrimEnd(_)
TrimEnd(s) ==
    IF s # << >> /\ IsSpace(s[Len(s)]) THEN TrimEnd(SubSeq(s, 1, Len(s) - 1)) ELSE s

\* String.prototype.trim
Trim(s) == TrimEnd(TrimStart(s))

\* API keys a user can hold: none, whitespace only, a key
\* a key of the form the provider issues, and a key of another form
SkKey == << "s", "k", "-", "1" >>
PlainKey == << "K", "9" >>

KeyInputs == {<< >>, << " " >>, PlainKey}

\* the keys a direct caller passes
ApiKeys == KeyInputs \cup {SkKey}

-----------------------------------------------------------------------------
(* JSON values, tagged by their JavaScript type *)

JUndef == [t |-> "undefined"]
JStr(s) == [t |-> "string", s |-> s]
JObj(f) == [t |-> "object", f |-> f]

\* obj?.key
Get(v, k) == IF v.t = "object" /\ k \in DOMAIN v.f THEN v.f[k] ELSE JUndef

\* a ?? b
Coalesce(a, b) == IF a.t \in {"undefined", "null"} THEN b ELSE a

JNull == [t |-> "null"]
JNum(n) == [t |-> "number", n |-> n]
JBool(b) == [t |-> "boolean", b |-> b]
JArr(a) == [t |-> "array", a |-> a]

\* v && typeof v === "object": arrays are objects too
IsObjectType(v) == v.t \in {"object", "array"}

\* the truthiness of a value
Truthy(v) ==
    CASE v.t = "string" -> v.s # ""
      [] v.t = "number" -> v.n # 0
      [] v.t = "boolean" -> v.b
      [] v.t \in {"object", "array"} -> TRUE
      [] OTHER -> FALSE

\* arr[k - 1], undefined past the end
Elem(arr, k) == IF arr.t = "array" /\ k >= 1 /\ k <= Len(arr.a) THEN arr.a[k] ELSE JUndef

(* Strings of the host language; a character is a string of length 1 *)
StrIsSpace(c) == c \in {" ", "\n", "\t", "\r"}

RECURSIVE StrTrimStart(_)
StrTrimStart(s) ==
    IF Len(s) > 0 /\ StrIsSpace(SubSeq(s, 1, 1)) THEN StrTrimStart(SubSeq(s, 2, Len(s))) ELSE s

RECURSIVE StrTrimEnd(_)
StrTrimEnd(s) ==
    IF Len(s) > 0 /\ StrIsSpace(SubSeq(s, Len(s), Len(s)))
    THEN StrTrimEnd(SubSeq(s, 1, Len(s) - 1)) ELSE s

\* String.prototype.trim on a string
StrTrim(s) == StrTrimEnd(StrTrimStart(s))

\* s.startsWith(c) and s.endsWith(c) for a character c
StrStartsWith(s, c) == Len(s) > 0 /\ SubSeq(s, 1, 1) = c
StrEndsWith(s, c) == Len(s) > 0 /\ SubSeq(s, Len(s), Len(s)) = c

RECURSIVE JoinStrings(_, _)
\* arr.join(sep) on a sequence of strings
JoinStrings(strs, sep) ==
    IF strs = << >> THEN ""
    ELSE IF Len(strs) = 1 THEN strs[1]
    ELSE strs[1] \o sep \o JoinStrings(Tail(strs), sep)

RECURSIVE StringOf(_)
RECURSIVE StringOfElems(_)
\* String(v); an array joins its elements with ",", null and undefined as ""
StringOf(v) ==
    CASE v.t = "string" -> v.s
      [] v.t = "number" -> ToString(v.n)
      [] v.t = "boolean" -> IF v.b THEN "true" ELSE "false"
      [] v.t = "null" -> "null"
      [] v.t = "undefined" -> "undefined"
      [] v.t = "array" -> JoinStrings(StringOfElems(v.a), ",")
      [] OTHER -> "[object Object]"

StringOfElems(a) ==
    [ k \in 1 .. Len(a) |-> IF a[k].t \in {"null", "undefined"} THEN "" ELSE StringOf(a[k]) ]

(* JSON.stringify(v, null, 2) *)

\* the keys of the objects met here, in the order the objects are built with
KeyOrder ==
    << "output_text", "output", "choices", "error", "message", "role", "type",
       "content", "text", "value", "foo" >>

\* the own keys JSON.stringify prints: those whose value is not undefined
OwnKeys(obj) ==
    SelectSeq(KeyOrder, LAMBDA k : k \in DOMAIN obj.f /\ obj.f[k].t # "undefined")

RECURSIVE Escape(_)
\* the escapes of a JSON string literal
Escape(s) ==
    IF Len(s) = 0 THEN ""
    ELSE (CASE SubSeq(s, 1, 1) = "\"" -> "\\\""
            [] SubSeq(s, 1, 1) = "\\" -> "\\\\"
            [] SubSeq(s, 1, 1) = "\n" -> "\\n"
            [] OTHER -> SubSeq(s, 1, 1)) \o Escape(SubSeq(s, 2, Len(s)))

Quote(s) == "\"" \o Escape(s) \o "\""

RECURSIVE Stringify(_, _)
\* the text of v at indentation ind, two spaces a level
Stringify(v, ind) ==
    CASE v.t = "string" -> Quote(v.s)
      [] v.t = "number" -> ToString(v.n)
      [] v.t = "boolean" -> IF v.b THEN "true" ELSE "false"
      [] v.t = "array" ->
           IF v.a = << >> THEN "[]"
           ELSE "[\n"
                \o JoinStrings([k \in 1 .. Len(v.a) |->
                                   ind \o "  " \o Stringify(v.a[k], ind \o "  ")], ",\n")
                \o "\n" \o ind \o "]"
      [] v.t = "object" ->
           IF OwnKeys(v) = << >> THEN "{}"
           ELSE "{\n"
                \o JoinStrings([k \in 1 .. Len(OwnKeys(v)) |->
                                   ind \o "  " \o Quote(OwnKeys(v)[k]) \o ": "
                                       \o Stringify(v.f[OwnKeys(v)[k]], ind \o "  ")], ",\n")
                \o "\n" \o ind \o "}"
      [] OTHER -> "null"

JSONStringify(v) == Stringify(v, "")

-----------------------------------------------------------------------------
(* The logger: log(), warn() and error() hand one line each to Zotero.debug *)

TAG == "[Zotero-AI]"

RECURSIVE TextOf(_)
\* the string a text of the model (a sequence of characters) stands for
TextOf(cs) == IF cs = << >> THEN "" ELSE Head(cs) \o TextOf(Tail(cs))

\* val.startsWith(prefix)
HasPrefix(s, prefix) == Len(s) >= Len(prefix) /\ SubSeq(s, 1, Len(prefix)) = prefix

\* /^Bearer\s+sk-/.test(val)
IsBearerSk(s) ==
    /\ HasPrefix(s, "Bearer")
    /\ \E rest \in {SubSeq(s, 7, Len(s))} :
           /\ StrTrimStart(rest) # rest
           /\ HasPrefix(StrTrimStart(rest), "sk-")

RECURSIVE Replaced(_)
\* the replacer of safeStringify, on a value and on everything it holds
Replaced(v) ==
    CASE v.t = "string" ->
           IF HasPrefix(v.s, "sk-") THEN JStr("sk-***REDACTED***")
           ELSE IF IsBearerSk(v.s) THEN JStr("Bearer sk-***REDACTED***")
           ELSE v
      [] v.t = "array" -> JArr([k \in 1 .. Len(v.a) |-> Replaced(v.a[k])])
      [] v.t = "object" -> JObj([k \in DOMAIN v.f |-> Replaced(v.f[k])])
      [] OTHER -> v

\* one key of the object literal a log call is given
Field(name, value) == << name, value >>

\* the fields JSON.stringify prints: those whose value is not undefined
PrintedFields(fields) == SelectSeq(fields, LAMBDA f : f[2].t # "undefined")

\* the text of the printed fields, in the order they were written
FieldsText(own) ==
    IF own = << >> THEN "{}"
    ELSE "{\n"
         \o JoinStrings([k \in 1 .. Len(own) |->
                            "  " \o Quote(own[k][1]) \o ": "
                                 \o Stringify(Replaced(own[k][2]), "  ")], ",\n")
         \o "\n}"

\* safeStringify(data) on the object literal of a log call
safeStringify(fields) == FieldsText(PrintedFields(fields))

\* a call of log(message), warn(message) or error(message); level is the
\* mark after the tag, [WARN] or [ERROR]
Line(level, message) ==
    [level |-> level, message |-> message, hasData |-> FALSE, data |-> << >>]

\* a call of log(message, data)
LineWith(level, message, fields) ==
    [level |-> level, message |-> message, hasData |-> TRUE, data |-> fields]

\* the line a call writes: `${TAG} ${message} ${safeStringify(data)}` when
\* data !== undefined, `${TAG} ${message}` otherwise
LineText(call) ==
    TAG \o call.level \o " " \o call.message
        \o (IF call.hasData THEN " " \o safeStringify(call.data) ELSE "")

\* the call is made: LineText(call) reaches the debug output
Logged(t, call) == [t EXCEPT !.logs = Append(@, call)]

log(t, message, fields) == Logged(t, LineWith("", message, fields))
warn(t, message, fields) == Logged(t, LineWith(" [WARN]", message, fields))
error(t, message, fields) == Logged(t, LineWith(" [ERROR]", message, fields))

\* the calls without data
logOnly(t, message) == Logged(t, Line("", message))
warnOnly(t, message) == Logged(t, Line(" [WARN]", message))
errorOnly(t, message) == Logged(t, Line(" [ERROR]", message))

\* redactKey(k): what the UI logs in place of a key
redactKey(k) ==
    IF k = << >> THEN ""
    ELSE IF HasPrefix(TextOf(k), "sk-") THEN "sk-***REDACTED***"
    ELSE "***REDACTED***"

\* { hasKey: !!key, keyPreview: redactKey(key) }
KeyMeta(key) ==
    << Field("hasKey", JBool(key # << >>)), Field("keyPreview", JStr(redactKey(key))) >>


(* Response bodies the provider can send *)
BodyBadKey == "{\"error\":{\"message\":\"bad key\"}}"
BodyMessage == "{\"message\":\"slow down\"}"
BodyEmptyObj == "{}"
BodyHtml == "<html>Bad Gateway</html>"
BodyAnswer == "{\"output_text\":\"hi\"}"
BodyPlain == "plain answer"

(* Strings that hold JSON, as a caller of the normaliser can pass them *)
BodyArray == "[1,2]"
BodyFoo == "{\"foo\":1}"
BodyChat == "{\"choices\":[{\"message\":{\"content\":\"x\"}}]}"

\* the body of the provider's 401, which quotes the key it was sent
IncorrectKeyHead == "{\"error\":{\"message\":\""
IncorrectKeyMessage(apiKey) == "Incorrect API key provided: " \o TextOf(apiKey) \o "."
BodyIncorrectKey(apiKey) == IncorrectKeyHead \o IncorrectKeyMessage(apiKey) \o "\"}}"

\* JSON.parse on the bodies above: [ok, v]; ok = FALSE is a SyntaxError
JSONParse(s) ==
    CASE s = BodyBadKey ->
           [ok |-> TRUE, v |-> JObj([error |-> JObj([message |-> JStr("bad key")])])]
      [] s = BodyMessage ->
           [ok |-> TRUE, v |-> JObj([message |-> JStr("slow down")])]
      [] s = BodyEmptyObj -> [ok |-> TRUE, v |-> JObj(<< >>)]
      [] s = BodyAnswer -> [ok |-> TRUE, v |-> JObj([output_text |-> JStr("hi")])]
      [] s = BodyArray -> [ok |-> TRUE, v |-> JArr(<< JNum(1), JNum(2) >>)]
      [] s = BodyFoo -> [ok |-> TRUE, v |-> JObj([foo |-> JNum(1)])]
      [] s = BodyChat ->
           [ok |-> TRUE,
            v |-> JObj([choices |->
                     JArr(<< JObj([message |-> JObj([content |-> JStr("x")])]) >>)])]
      [] HasPrefix(s, IncorrectKeyHead \o "Incorrect API key provided: ") ->
           [ok |-> TRUE,
            v |-> JObj([error |-> JObj([message |->
                     JStr(SubSeq(s, Len(IncorrectKeyHead) + 1, Len(s) - 3))])])]
      [] OTHER -> [ok |-> FALSE, v |-> JUndef]

\* rawText ? JSON.parse(rawText) : {}
ParseOrEmpty(rawText) ==
    IF rawText = "" THEN [ok |-> TRUE, v |-> JObj(<< >>)] ELSE JSONParse(rawText)

\* s.slice(0, n)
Slice(s, n) == IF Len(s) <= n THEN s ELSE SubSeq(s, 1, n)

(* What fetch() resolves with: the status line; the body is read afterwards *)
ResponseHeads ==
    { [ok |-> TRUE,  status |-> 200, statusText |-> "OK"],
      [ok |-> FALSE, status |-> 401, statusText |-> "Unauthorized"],
      [ok |-> FALSE, status |-> 502, statusText |-> "Bad Gateway"] }

Bodies == {BodyBadKey, BodyMessage, BodyEmptyObj, BodyHtml, BodyAnswer, BodyPlain, ""}

NoRes == [ok |-> FALSE, status |-> 0, statusText |-> ""]

(* Error objects: id tells one object from another with the same message *)
NewError(msg) == [id |-> "Error", message |-> msg]
NetErrors == { [id |-> "TypeError#1", message |-> "NetworkError when attempting to fetch resource."] }
NoErr == [id |-> "", message |-> ""]

Throw(e) == [tag |-> "throw", err |-> e, val |-> JUndef]
Return(v) == [tag |-> "return", err |-> NoErr, val |-> v]
NoOutcome == [tag |-> "none", err |-> NoErr, val |-> JUndef]


-----------------------------------------------------------------------------
(* Files handed to the transport.  file_data is a base64 text, with the     *)
(* data: prefix the UI adds kept apart from the payload.                    *)

InputFile(name, prefix, b64) == [filename |-> name, prefix |-> prefix, b64 |-> b64]

DataPrefix == "data:application/pdf;base64,"

SampleFile == InputFile("a.pdf", "", << "J", "V", "B", "E" >>)
NoDataFile == InputFile("b.pdf", "", << >>)

\* argument lists a direct caller of callOpenAIWithFiles passes
FileArgs == { << >>, << SampleFile >>, << NoDataFile, SampleFile >> }

-----------------------------------------------------------------------------
(* The host library.  An item is what the host's item object answers;      *)
(* throws names the accessors of the item that raise.                       *)

NoItem == ""       \* null

NoUri == [kind |-> "none", wellFormed |-> FALSE, mime |-> "", payload |-> << >>]
DataUri(mime, payload) ==
    [kind |-> "data", wellFormed |-> TRUE, mime |-> mime, payload |-> payload]
NoDisk == [readable |-> FALSE, b64 |-> << >>]
Disk(b64) == [readable |-> TRUE, b64 |-> b64]

Regular(top, atts, kids, throws) ==
    [ exists |-> TRUE, isAttachment |-> FALSE, isNote |-> FALSE, mime |-> "",
      top |-> top, parent |-> NoItem, atts |-> atts, kids |-> kids, fname |-> "",
      uri |-> NoUri, path |-> "", disk |-> NoDisk, throws |-> throws ]

Attachment(top, mime, fname, uri, path, disk) ==
    [ exists |-> TRUE, isAttachment |-> TRUE, isNote |-> FALSE, mime |-> mime,
      top |-> top, parent |-> top, atts |-> << >>, kids |-> << >>, fname |-> fname,
      uri |-> uri, path |-> path, disk |-> disk, throws |-> {} ]

Note(parent) ==
    [ exists |-> TRUE, isAttachment |-> FALSE, isNote |-> TRUE, mime |-> "",
      top |-> parent, parent |-> parent, atts |-> << >>, kids |-> << >>, fname |-> "",
      uri |-> NoUri, path |-> "", disk |-> NoDisk, throws |-> {} ]

Missing ==
    [ exists |-> FALSE, isAttachment |-> FALSE, isNote |-> FALSE, mime |-> "",
      top |-> NoItem, parent |-> NoItem, atts |-> << >>, kids |-> << >>, fname |-> "",
      uri |-> NoUri, path |-> "", disk |-> NoDisk, throws |-> {} ]

PaperA == "paperA"          \* its first PDF is unreadable, its second is readable
NotesTxt == "notes.txt"
BrokenPdf == "broken.pdf"
GoodPdf == "paper.pdf"
EmptyPaper == "emptyPaper"  \* no attachments, no children
LonePdf == "lone.pdf"       \* a top-level PDF attachment
LoneTxt == "lone.txt"       \* a top-level attachment that is no PDF
FlakyPaper == "flakyPaper"  \* isAttachment() raises
PaperB == "paperB"          \* attachment list empty, the PDF is among the children
ChildPdf == "b.pdf"
NoteA == "noteA"            \* chat note of PaperA
NoteB == "noteB"            \* chat note of PaperB
NoteFlaky == "noteFlaky"    \* chat note of FlakyPaper

ItemIds == { PaperA, NotesTxt, BrokenPdf, GoodPdf, EmptyPaper, LonePdf, LoneTxt, FlakyPaper,
             PaperB, ChildPdf, NoteA, NoteB, NoteFlaky }

Item(id) ==
    CASE id = PaperA -> Regular(PaperA, << NotesTxt, BrokenPdf, GoodPdf >>,
                                << NotesTxt, BrokenPdf, GoodPdf, NoteA >>, {})
      [] id = NotesTxt -> Attachment(PaperA, "text/plain", "notes.txt", NoUri,
                                     "/z/notes.txt", Disk(<< "a", "G", "k", "=" >>))
      [] id = BrokenPdf -> Attachment(PaperA, "application/pdf", "broken.pdf",
                                      DataUri("application/pdf", << "J", "V", "*", "E" >>),
                                      "/z/broken.pdf", NoDisk)
      [] id = GoodPdf -> Attachment(PaperA, "Application/PDF", "paper.pdf", NoUri,
                                    "/z/paper.pdf",
                                    Disk(<< "J", "V", "B", "E", "R", "\n", "g" >>))
      [] id = EmptyPaper -> Regular(EmptyPaper, << >>, << >>, {})
      [] id = LonePdf -> Attachment(LonePdf, "application/pdf", "",
                                    DataUri("application/pdf", << "J", "V", "B", "E" >>),
                                    "", NoDisk)
      [] id = LoneTxt -> Attachment(LoneTxt, "text/plain", "lone.txt", NoUri,
                                    "/z/lone.txt", Disk(<< "a", "G", "k" >>))
      [] id = FlakyPaper -> Regular(FlakyPaper, << >>, << NoteFlaky >>, {"isAttachment"})
      [] id = PaperB -> Regular(PaperB, << >>, << NoteB, ChildPdf >>, {})
      [] id = ChildPdf -> Attachment(PaperB, "application/pdf", "b.pdf",
                                     DataUri("application/pdf", << "J", "V", " ", "B", "E", "R", "i" >>),
                                     "/z/b.pdf", Disk(<< "J", "V", "B", "E", "R", "i", "0", "=" >>))
      [] id = NoteA -> Note(PaperA)
      [] id = NoteB -> Note(PaperB)
      [] id = NoteFlaky -> Note(FlakyPaper)
      [] OTHER -> Missing

-----------------------------------------------------------------------------
(* Base64 *)

B64Alphabet ==
    { "A", "B", "C", "D", "E", "F", "G", "H", "I", "J", "K", "L", "M", "N", "O", "P",
      "Q", "R", "S", "T", "U", "V", "W", "X", "Y", "Z", "a", "b", "c", "d", "e", "f",
      "g", "h", "i", "j", "k", "l", "m", "n", "o", "p", "q", "r", "s", "t", "u", "v",
      "w", "x", "y", "z", "0", "1", "2", "3", "4", "5", "6", "7", "8", "9", "+", "/" }

RECURSIVE StripSpace(_)
StripSpace(s) ==
    IF s = << >> THEN << >>
    ELSE IF IsSpace(Head(s)) THEN StripSpace(Tail(s))
    ELSE << Head(s) >> \o StripSpace(Tail(s))

Repeat(c, n) == [k \in 1 .. n |-> c]

\* normalizeBase64 gone wrong: padding is added even to a multiple of 4
normalizeBase64AlwaysPads(raw) ==
    LET s == StripSpace(raw)
    IN  s \o Repeat("=", 4 - (Len(s) % 4))

\* raw.replace(/\s+/g, "") padded with "=" to a multiple of 4
normalizeBase64(raw) ==
    LET s == StripSpace(raw)
        pad == Len(s) % 4
    IN  IF pad # 0 THEN s \o Repeat("=", 4 - pad) ELSE s

\* window.atob: up to two trailing "=" of a text of length 4k are dropped, then
\* the length must not be 1 mod 4 and every character must be of the alphabet
AtobOk(s0) ==
    LET s == StripSpace(s0)
        n == Len(s)
        cut == IF n % 4 = 0 /\ n >= 2 /\ s[n] = "=" /\ s[n - 1] = "=" THEN 2
               ELSE IF n % 4 = 0 /\ n >= 1 /\ s[n] = "=" THEN 1
               ELSE 0
        data == SubSeq(s, 1, n - cut)
    IN  /\ Len(data) % 4 # 1
        /\ \A k \in 1 .. Len(data) : data[k] \in B64Alphabet

\* assertAndExplainBase64 gone wrong: nothing is tested
assertAndExplainBase64Lax(b64) == TRUE

\* assertAndExplainBase64 returns (TRUE) or throws (FALSE)
assertAndExplainBase64(b64) ==
    LET s == normalizeBase64(b64)
    IN  /\ \A k \in 1 .. Len(s) : s[k] \in B64Alphabet \cup {"="}
        /\ AtobOk(s)

\* extractBase64FromDataURI: [ok, mime, base64]; ok = FALSE is a throw
extractBase64FromDataURI(uri) ==
    IF uri.kind = "data" /\ uri.wellFormed /\ uri.mime # "" /\ uri.payload # << >>
    THEN [ok |-> TRUE, mime |-> uri.mime, base64 |-> normalizeBase64(uri.payload)]
    ELSE [ok |-> FALSE, mime |-> "", base64 |-> << >>]

ToLower(mime) ==
    CASE mime = "Application/PDF" -> "application/pdf"
      [] OTHER -> mime

\* isPdfMime gone wrong: the comparison is case-sensitive
isPdfMimeExact(mime) == mime = "application/pdf"

isPdfMime(mime) == ToLower(mime) = "application/pdf"

-----------------------------------------------------------------------------
(* The attachment resolver *)

\* describeItem raises when an accessor it calls raises
DescribeThrows(id) ==
    LET it == Item(id)
    IN  /\ it.exists
        /\ \/ "isAttachment" \in it.throws
           \/ "isTopLevelItem" \in it.throws
           \/ "getTopLevelItem" \in it.throws
           \/ (it.fname = "" /\ "getFilename" \in it.throws)

RECURSIVE LastPdf(_)
\* FirstPdf gone wrong: the last PDF of the list instead of the first
LastPdf(ids) ==
    IF ids = << >> THEN NoItem
    ELSE IF LastPdf(Tail(ids)) # NoItem THEN LastPdf(Tail(ids))
    ELSE IF isPdfMime(Item(Head(ids)).mime) THEN Head(ids)
    ELSE NoItem

RECURSIVE FirstPdf(_)
\* arr.find(a => isPdfMime(a.attachmentContentType)), NoItem when there is none
FirstPdf(ids) ==
    IF ids = << >> THEN NoItem
    ELSE IF isPdfMime(Item(Head(ids)).mime) THEN Head(ids)
    ELSE FirstPdf(Tail(ids))

RECURSIVE KeepAttachments(_)
\* children.filter(c => c.isAttachment?.())
KeepAttachments(ids) ==
    IF ids = << >> THEN << >>
    ELSE IF Item(Head(ids)).isAttachment THEN << Head(ids) >> \o KeepAttachments(Tail(ids))
    ELSE KeepAttachments(Tail(ids))

AnyDescribeThrows(ids) == \E k \in 1 .. Len(ids) : DescribeThrows(ids[k])

\* findFirstPdfAttachment: the id of the attachment, NoItem for null (it never
\* throws: everything after the null test is inside its try)
findFirstPdfAttachment(id) ==
    LET it == Item(id)
        top == it.top
        atts == Item(top).atts
        kids == KeepAttachments(Item(top).kids)
        pdf1 == FirstPdf(atts)
        pdf2 == FirstPdf(kids)
    IN  IF id = NoItem \/ ~it.exists THEN NoItem
        ELSE IF DescribeThrows(id) THEN NoItem
        ELSE IF it.isAttachment /\ isPdfMime(it.mime) THEN id
        ELSE IF top = NoItem \/ ~Item(top).exists \/ "isAttachment" \in Item(top).throws
                \/ Item(top).isAttachment THEN NoItem
        ELSE IF "getAttachments" \in Item(top).throws THEN NoItem
        ELSE IF atts # << >> /\ AnyDescribeThrows(atts) THEN NoItem
        ELSE IF atts # << >> /\ pdf1 # NoItem THEN pdf1
        ELSE IF "getChildren" \in Item(top).throws THEN NoItem
        ELSE IF Item(top).kids # << >> /\ AnyDescribeThrows(kids) THEN NoItem
        ELSE IF Item(top).kids # << >> /\ pdf2 # NoItem THEN pdf2
        ELSE NoItem

NoPayload == [tag |-> "null", base64 |-> << >>, mime |-> "", filename |-> "", via |-> ""]
PayloadThrow == [tag |-> "throw", base64 |-> << >>, mime |-> "", filename |-> "", via |-> ""]
Payload(b64, mime, name, via) ==
    [tag |-> "ok", base64 |-> b64, mime |-> mime, filename |-> name, via |-> via]

\* readFileAsBase64(path): [ok, b64]; the read raises when no file API can read it
readFileAsBase64(att) ==
    IF att.path # "" /\ att.disk.readable
    THEN [ok |-> TRUE, b64 |-> normalizeBase64(att.disk.b64)]
    ELSE [ok |-> FALSE, b64 |-> << >>]

\* getAttachmentFilePath: the path, "" for null (a raising host call is caught)
getAttachmentFilePath(att) ==
    IF "getFilePath" \in att.throws THEN "" ELSE att.path

\* readAttachmentToBase64, path 2: the file on disk
ReadViaPath(att, mime, filename) ==
    LET path == getAttachmentFilePath(att)
        rawB64 == readFileAsBase64(att)
        base64 == normalizeBase64(rawB64.b64)
    IN  IF path = "" THEN NoPayload
        ELSE IF ~rawB64.ok THEN NoPayload
        ELSE IF ~assertAndExplainBase64(base64) THEN NoPayload
        ELSE Payload(base64, mime, filename, "path")

\* readAttachmentToBase64: data URI first, then the file path
readAttachmentToBase64(id) ==
    LET att == Item(id)
        filename == IF att.fname # "" THEN att.fname ELSE "document.pdf"
        mime == IF att.mime # "" THEN att.mime ELSE "application/octet-stream"
        ex == extractBase64FromDataURI(att.uri)
    IN  IF id = NoItem \/ ~att.exists THEN NoPayload
        ELSE IF att.fname = "" /\ "getFilename" \in att.throws THEN PayloadThrow
        ELSE IF /\ "attachmentDataURI" \notin att.throws
                /\ att.uri.kind = "data"
                /\ ex.ok
                /\ assertAndExplainBase64(ex.base64)
             THEN Payload(ex.base64, ex.mime, filename, "dataURI")
        ELSE ReadViaPath(att, mime, filename)

\* getSelectedItemsOrReaderItem: the selected items, else the reader tab's item
getSelectedItemsOrReaderItem(sel, reader, paneFails) ==
    LET items == IF paneFails THEN << >> ELSE sel
    IN  IF items # << >> THEN items
        ELSE IF reader # NoItem /\ Item(reader).exists THEN << reader >>
        ELSE << >>

NoLoad == [tag |-> "none", file |-> NoDataFile, att |-> NoItem]
LoadNull(att) == [tag |-> "null", file |-> NoDataFile, att |-> att]
LoadThrow(att) == [tag |-> "throw", file |-> NoDataFile, att |-> att]
LoadFile(f, att) == [tag |-> "file", file |-> f, att |-> att]

\* loadSelectedPdfAsInputFile: the file, null, or a throw; att is the attachment it chose
loadSelectedPdfAsInputFile(sel, reader, paneFails) ==
    LET selected == getSelectedItemsOrReaderItem(sel, reader, paneFails)
        item == selected[1]
        pdfAtt == findFirstPdfAttachment(item)
        payload == readAttachmentToBase64(pdfAtt)
    IN  IF selected = << >> THEN LoadNull(NoItem)
        ELSE IF DescribeThrows(item) THEN LoadThrow(NoItem)
        ELSE IF pdfAtt = NoItem THEN LoadNull(NoItem)
        ELSE IF payload.tag = "throw" THEN LoadThrow(pdfAtt)
        ELSE IF payload.tag = "null" \/ payload.base64 = << >> THEN LoadNull(pdfAtt)
        ELSE LoadFile(InputFile(payload.filename, "", payload.base64), pdfAtt)

\* one ? [one] : [], a throw of the single-file loader passing through
FilesOf(one) ==
    IF one.tag = "throw" THEN [tag |-> "throw", files |-> << >>, att |-> one.att]
    ELSE IF one.tag = "file" THEN [tag |-> "files", files |-> << one.file >>, att |-> one.att]
    ELSE [tag |-> "files", files |-> << >>, att |-> one.att]

\* loadSelectedPdfFiles: [tag = "files"/"throw", files]
loadSelectedPdfFiles(sel, reader, paneFails) ==
    FilesOf(loadSelectedPdfAsInputFile(sel, reader, paneFails))

-----------------------------------------------------------------------------
(* Invocations *)

\* no normalised answer yet
NoNorm == [text |-> "", source |-> "", threw |-> FALSE]

NoReq ==
    [url |-> "", auth |-> << >>, model |-> "", text |-> << >>, files |-> << >>,
     input |-> << >>]
NoArg == [sel |-> << >>, reader |-> NoItem, paneFails |-> FALSE]

\* sys: the system prompt the caller supplies (the UI reads it from the
\* preferences); logs: the calls of
\* the logger the running invocation has made about the key, the request and
\* the response
Idle ==
    [ kind |-> "idle", pc |-> "idle", fn |-> "", text |-> << >>, key |-> << >>,
      files |-> << >>, posts |-> 0, req |-> NoReq, res |-> NoRes, raw |-> "",
      out |-> NoOutcome, load |-> NoLoad, arg |-> NoArg, note |-> NoItem,
      prevSel |-> << >>, ans |-> "", payload |-> NoPayload, norm |-> NoNorm,
      sys |-> "", logs |-> << >> ]

OPENAI_URL == "https://api.openai.com/v1/responses"
DEFAULT_MODEL == "gpt-5"
DEFAULT_SYSTEM_PROMPT ==
    "You are a scientific literature assistant. When answering, cite exact page numbers in parentheses (e.g., p. 3) whenever you rely on the PDF content."

\* the system prompt callOpenAI always sends
SUMMARIZE_PROMPT ==
    "You are scientific literature assistant. Summarize the given abstract for a general audience."

\* !f?.file_data || !f?.filename
IsInvalidFile(f) == (f.prefix = "" /\ f.b64 = << >>) \/ f.filename = ""

RECURSIVE WellFormedFiles(_)
\* buildInput: the malformed file entries are skipped
WellFormedFiles(files) ==
    IF files = << >> THEN << >>
    ELSE LET f == Head(files)
             rest == WellFormedFiles(Tail(files))
         IN  IF (f.prefix = "" /\ f.b64 = << >>) \/ f.filename = ""
             THEN rest
             ELSE << f >> \o rest

RECURSIVE SkippedLogged(_, _)
\* buildInput: one warning for each file entry it skips
SkippedLogged(t, files) ==
    IF files = << >> THEN t
    ELSE IF IsInvalidFile(Head(files))
    THEN SkippedLogged(
             warn(t, "openai.inputFile.skipped.invalid",
                  << Field("hasData", JBool(~(Head(files).prefix = "" /\ Head(files).b64 = << >>))),
                     Field("filename", JStr(Head(files).filename)) >>),
             Tail(files))
    ELSE SkippedLogged(t, Tail(files))

\* { type: "input_text", text }
InputText(text) == [type |-> "input_text", text |-> text]

\* { type: "input_file", filename, file_data }
InputFileBlock(f) == [type |-> "input_file", file |-> f]

\* { role, content }
Block(role, content) == [role |-> role, content |-> content]

\* if (systemText && systemText.trim()) input.push({ role: "system", ... })
SystemBlocks(systemText) ==
    IF systemText # "" /\ StrTrim(systemText) # ""
    THEN << Block("system", << InputText(systemText) >>) >>
    ELSE << >>

\* buildInput(userText, systemText, files): the input list of the request
buildInput(userText, systemText, files) ==
    SystemBlocks(systemText)
        \o << Block("user",
                    << InputText(userText) >>
                        \o [k \in 1 .. Len(WellFormedFiles(files)) |->
                               InputFileBlock(WellFormedFiles(files)[k])]) >>

\* the fetch(OPENAI_URL, {method: "POST", ...}) call: one more POST in flight.
\* The Authorization header holds the key; the body holds the input list
Fetch(t, model, textToSend, systemText, files, apiKey) ==
    [ t EXCEPT !.pc = "fetch",
               !.posts = t.posts + 1,
               !.req = [ url |-> OPENAI_URL, auth |-> apiKey, model |-> model,
                         text |-> textToSend, files |-> WellFormedFiles(files),
                         input |-> buildInput(textToSend, systemText, files) ] ]

\* sendResponsesRequest(body, apiKey, meta) up to its await of fetch
PostRequest(t, model, textToSend, systemText, files, apiKey, mode) ==
    Fetch(log(t, "openai.send.enter",
              << Field("model", JStr(model)), Field("mode", JStr(mode)) >>),
          model, textToSend, systemText, files, apiKey)

\* a call that ended: its outcome is what the caller's await sees
Finish(t, outcome) == [ t EXCEPT !.pc = "callDone", !.out = outcome ]

\* a fresh call frame
Enter(t, fn, userText, files, apiKey) ==
    [ t EXCEPT !.fn = fn, !.text = userText, !.key = apiKey, !.files = files,
               !.posts = 0, !.out = NoOutcome, !.res = NoRes, !.raw = "",
               !.req = NoReq ]

\* log("callOpenAI.enter", { promptLen })
EnterLogged(t, userText) ==
    log(t, "callOpenAI.enter", << Field("promptLen", JNum(Len(userText))) >>)

\* error("callOpenAI.missingKey", ...); throw e
MissingKey(t, name) ==
    Finish(error(t, name \o ".missingKey",
                 << Field("message", JStr("Missing OpenAI API key")) >>),
           Throw(NewError("Missing OpenAI API key")))

\* error("callOpenAI.emptyPrompt"); throw e
EmptyPrompt(t, name) ==
    Finish(errorOnly(t, name \o ".emptyPrompt"), Throw(NewError("Prompt is empty")))

\* log("callOpenAI.request", { url, model, promptFirst80 })
RequestLogged(t, model, textToSend) ==
    log(t, "callOpenAI.request",
        << Field("url", JStr(OPENAI_URL)), Field("model", JStr(model)),
           Field("promptFirst80", JStr(TextOf(Slice(textToSend, 80)))) >>)

\* callOpenAI gone wrong: the prompt is tested before the key
callOpenAIPromptFirst(t, userText, apiKey) ==
    LET t0 == EnterLogged(Enter(t, "callOpenAI", userText, << >>, apiKey), userText)
        textToSend == Trim(userText)
    IN  IF textToSend = << >> THEN EmptyPrompt(t0, "callOpenAI")
        ELSE IF apiKey = << >> THEN MissingKey(t0, "callOpenAI")
        ELSE PostRequest(RequestLogged(t0, DEFAULT_MODEL, textToSend),
                         DEFAULT_MODEL, textToSend, SUMMARIZE_PROMPT, << >>, apiKey,
                         "text-only")

\* callOpenAI, from its entry to the await of fetch
callOpenAI(t, userText, apiKey) ==
    LET t0 == EnterLogged(Enter(t, "callOpenAI", userText, << >>, apiKey), userText)
        textToSend == Trim(userText)
    IN  IF apiKey = << >> THEN MissingKey(t0, "callOpenAI")
        ELSE IF textToSend = << >> THEN EmptyPrompt(t0, "callOpenAI")
        ELSE PostRequest(RequestLogged(t0, DEFAULT_MODEL, textToSend),
                         DEFAULT_MODEL, textToSend, SUMMARIZE_PROMPT, << >>, apiKey,
                         "text-only")

\* the earlier draft of callOpenAI, which posts by itself
callOpenAIDraft(t, userText, apiKey) ==
    LET t0 == EnterLogged(Enter(t, "callOpenAI.draft", userText, << >>, apiKey), userText)
        textToSend == Trim(userText)
    IN  IF apiKey = << >> THEN MissingKey(t0, "callOpenAI")
        ELSE IF textToSend = << >> THEN EmptyPrompt(t0, "callOpenAI")
        ELSE Fetch(RequestLogged(t0, "gpt-5-chat-latest", textToSend),
                   "gpt-5-chat-latest", textToSend, SUMMARIZE_PROMPT, << >>, apiKey)

\* log("callOpenAIWithFiles.enter", { promptLen, filesCount, model })
EnterWithFilesLogged(t, userText, files, model) ==
    log(t, "callOpenAIWithFiles.enter",
        << Field("promptLen", JNum(Len(userText))), Field("filesCount", JNum(Len(files))),
           Field("model", JStr(model)) >>)

RECURSIVE FilesLogged(_, _)
\* one line for each file: its name and the length of its data, never the data
FilesLogged(t, files) ==
    IF files = << >> THEN t
    ELSE FilesLogged(
             log(t, "callOpenAIWithFiles.file",
                 << Field("filename", JStr(Head(files).filename)),
                    Field("base64Len", JNum(Len(Head(files).prefix) + Len(Head(files).b64))) >>),
             Tail(files))

\* the telemetry on files, then buildInput, then log("callOpenAIWithFiles.request", ...)
RequestWithFilesLogged(t, model, textToSend, files) ==
    log(SkippedLogged(IF files = << >>
                      THEN warn(t, "callOpenAIWithFiles.noFiles", << >>)
                      ELSE FilesLogged(t, files),
                      files),
        "callOpenAIWithFiles.request",
        << Field("url", JStr(OPENAI_URL)), Field("model", JStr(model)),
           Field("promptFirst80", JStr(TextOf(Slice(textToSend, 80)))),
           Field("filesCount", JNum(Len(files))) >>)

\* opts.model || DEFAULT_MODEL
ModelOr(model) == IF model = "" THEN DEFAULT_MODEL ELSE model

\* the default gone wrong: the supplied system prompt is passed on as it is
SystemPromptAsGiven(systemPrompt) == systemPrompt

\* opts.systemPrompt || DEFAULT_SYSTEM_PROMPT
SystemPromptOr(systemPrompt) ==
    IF systemPrompt = "" THEN DEFAULT_SYSTEM_PROMPT ELSE systemPrompt

\* callOpenAIWithFiles gone wrong: a call without files is refused
callOpenAIWithFilesStrict(t, userText, files, apiKey, model, systemPrompt) ==
    LET t0 == EnterWithFilesLogged(Enter(t, "callOpenAIWithFiles", userText, files, apiKey),
                                   userText, files, ModelOr(model))
        textToSend == Trim(userText)
    IN  IF apiKey = << >> THEN MissingKey(t0, "callOpenAIWithFiles")
        ELSE IF textToSend = << >> THEN EmptyPrompt(t0, "callOpenAIWithFiles")
        ELSE IF files = << >> THEN Finish(t0, Throw(NewError("No files")))
        ELSE PostRequest(RequestWithFilesLogged(t0, ModelOr(model), textToSend, files),
                         ModelOr(model), textToSend, SystemPromptOr(systemPrompt),
                         files, apiKey, "files")

\* callOpenAIWithFiles, from its entry to the await of fetch; model and
\* systemPrompt are the fields of opts, "" when absent
callOpenAIWithFiles(t, userText, files, apiKey, model, systemPrompt) ==
    LET t0 == EnterWithFilesLogged(Enter(t, "callOpenAIWithFiles", userText, files, apiKey),
                                   userText, files, ModelOr(model))
        textToSend == Trim(userText)
    IN  IF apiKey = << >> THEN MissingKey(t0, "callOpenAIWithFiles")
        ELSE IF textToSend = << >> THEN EmptyPrompt(t0, "callOpenAIWithFiles")
        ELSE PostRequest(RequestWithFilesLogged(t0, ModelOr(model), textToSend, files),
                         ModelOr(model), textToSend, SystemPromptOr(systemPrompt),
                         files, apiKey, "files")

\* OnFetchThrow gone wrong: the request is posted again after a network error
OnFetchThrowRetry(t, netErr) == [t EXCEPT !.posts = t.posts + 1]

\* the prefix of the messages the sender logs: the draft logs under its own name
Sender(t) == IF t.fn = "callOpenAI.draft" THEN "callOpenAI" ELSE "openai"

\* String(e) of an Error: its name, a colon and its message
ErrorText(e) == (IF e.id = "Error" THEN "Error: " ELSE "TypeError: ") \o e.message

\* catch (netErr) { error(...); throw netErr; }
OnFetchThrow(t, netErr) ==
    Finish(error(t, Sender(t) \o ".fetch.throw",
                 << Field("message", JStr(ErrorText(netErr))) >>),
           Throw(netErr))

\* errJson?.error?.message ?? errJson?.message ?? `HTTP ${status} ${statusText}`
ProviderMessage(res, errJson) ==
    Coalesce(Get(Get(errJson, "error"), "message"),
             Coalesce(Get(errJson, "message"),
                      JStr("HTTP " \o ToString(res.status) \o " " \o res.statusText)))

\* `OpenAI HTTP ${status}: ${statusText} :: ${rawText.slice(0, 500)}`
UnparsedMessage(res, rawText) ==
    "OpenAI HTTP " \o ToString(res.status) \o ": " \o res.statusText \o " :: "
        \o Slice(rawText, 500)

\* the try block of the !res.ok branch always throws: the SyntaxError of
\* JSON.parse, or new Error(msg)
NotOkTry(res, rawText) ==
    LET parsed == ParseOrEmpty(rawText)
    IN  IF parsed.ok THEN NewError(ProviderMessage(res, parsed.v).s)
        ELSE NewError("SyntaxError: JSON.parse")

\* if (!res.ok) { try { ... throw new Error(msg) } catch { throw new Error(...) } }:
\* the bare catch receives whatever the try block threw, new Error(msg) included,
\* and throws the unparsed form in its place
NotOkError(res, rawText) ==
    LET caught == NotOkTry(res, rawText)
    IN  IF caught.id = "Error" THEN NewError(UnparsedMessage(res, rawText))
        ELSE NewError(UnparsedMessage(res, rawText))

\* the same branch in the draft of callOpenAI
NotOkErrorDraft(res, rawText) ==
    LET caught == NotOkTry(res, rawText)
    IN  IF caught.id = "Error" THEN NewError(UnparsedMessage(res, rawText))
        ELSE NewError(UnparsedMessage(res, rawText))

\* 2xx: the parsed JSON, or the raw text when it does not parse
OkValue(rawText) ==
    LET parsed == ParseOrEmpty(rawText)
    IN  IF parsed.ok THEN parsed.v ELSE JStr(rawText)

\* typeof v
TypeOf(v) ==
    IF v.t \in {"string", "number", "boolean", "undefined"} THEN v.t ELSE "object"

\* json && typeof json === "object" ? Object.keys(json).slice(0, 20) : []
TopKeys(json) ==
    IF json.t = "object"
    THEN JArr(Slice([k \in 1 .. Len(OwnKeys(json)) |-> JStr(OwnKeys(json)[k])], 20))
    ELSE IF json.t = "array"
    THEN JArr(Slice([k \in 1 .. Len(json.a) |-> JStr(ToString(k - 1))], 20))
    ELSE JArr(<< >>)

\* Date.now() - t0: the clock of the model stands still
Elapsed == JNum(0)

\* log("openai.responseMeta", ...) and log("openai.body.peek", ...); no
\* content-length header is modelled, so bytesHeader is undefined
ResponseLogged(t, rawText) ==
    log(log(t, Sender(t) \o ".responseMeta",
            << Field("ok", JBool(t.res.ok)), Field("status", JNum(t.res.status)),
               Field("statusText", JStr(t.res.statusText)), Field("bytesHeader", JUndef),
               Field("textLen", JNum(Len(rawText))) >>),
        IF t.fn = "callOpenAI.draft" THEN "callOpenAI.bodyPeek" ELSE "openai.body.peek",
        << Field("first1000", JStr(Slice(rawText, 1000))) >>)

\* the lines of the !res.ok branch: response.notOk when the body parses, and
\* response.notOk.unparsed from the catch in either case
NotOkLogged(t, rawText) ==
    error(IF ParseOrEmpty(rawText).ok
          THEN error(t, Sender(t) \o ".response.notOk",
                     << Field("status", JNum(t.res.status)),
                        Field("message", ProviderMessage(t.res, ParseOrEmpty(rawText).v)),
                        Field("rawPeek", JStr(Slice(rawText, 300))) >>)
          ELSE t,
          Sender(t) \o ".response.notOk.unparsed",
          << Field("status", JNum(t.res.status)),
             Field("statusText", JStr(t.res.statusText)),
             Field("rawPeek", JStr(Slice(rawText, 300))) >>)

\* log("callOpenAI.exit", { ms, returned: typeof json }) in the caller
ExitLogged(t, json) ==
    log(t, t.fn \o ".exit", << Field("ms", Elapsed), Field("returned", JStr(TypeOf(json))) >>)

\* the lines of a 2xx response in sendResponsesRequest and in its caller
OkLogged(t, rawText) ==
    IF ParseOrEmpty(rawText).ok
    THEN ExitLogged(log(t, "openai.parsed.ok",
                        << Field("topKeys", TopKeys(ParseOrEmpty(rawText).v)),
                           Field("ms", Elapsed) >>),
                    ParseOrEmpty(rawText).v)
    ELSE ExitLogged(log(warn(t, "openai.json.parseError",
                             << Field("message", JStr("JSON.parse: unexpected character")),
                                Field("rawSnippet", JStr(Slice(rawText, 300))) >>),
                        "openai.parsed.fallback", << Field("ms", Elapsed) >>),
                    JStr(rawText))

\* the same lines in the draft of callOpenAI, which logs its own exit
OkLoggedDraft(t, rawText) ==
    IF ParseOrEmpty(rawText).ok
    THEN log(log(t, "callOpenAI.parsed.ok",
                 << Field("topKeys", TopKeys(ParseOrEmpty(rawText).v)) >>),
             "callOpenAI.exit",
             << Field("ms", Elapsed),
                Field("returnedType", JStr(TypeOf(ParseOrEmpty(rawText).v))) >>)
    ELSE log(warn(t, "callOpenAI.json.parseError",
                  << Field("message", JStr("JSON.parse: unexpected character")),
                     Field("rawSnippet", JStr(Slice(rawText, 300))) >>),
             "callOpenAI.exit",
             << Field("ms", Elapsed), Field("returnedType", JStr("string")) >>)

\* sendResponsesRequest after res.text(): classify the response
Classify(t, rawText) ==
    LET t1 == ResponseLogged([ t EXCEPT !.raw = rawText ], rawText)
    IN  IF ~t.res.ok
        THEN Finish(NotOkLogged(t1, rawText),
                    Throw(IF t.fn = "callOpenAI.draft"
                          THEN NotOkErrorDraft(t.res, rawText)
                          ELSE NotOkError(t.res, rawText)))
        ELSE Finish(IF t.fn = "callOpenAI.draft"
                    THEN OkLoggedDraft(t1, rawText)
                    ELSE OkLogged(t1, rawText),
                    Return(OkValue(rawText)))

\* everything but the invocations
others == << isInserting, textarea, insertBtn, notices, activeNote,
             noteBlocks, prefs, selection, dlgKey, dlgPrompt, dlgOutput, ignored, chatNote, win >>

(* fetch resolves with the status line of a response *)
\* fetch resolves with a response whose body is still to be read
OnFetchResolve(t, r) == [t EXCEPT !.pc = "text", !.res = r]

FetchResolves(i) ==
    /\ task[i].pc = "fetch"
    /\ \E r \in ResponseHeads : task' = [task EXCEPT ![i] = OnFetchResolve(task[i], r)]
    /\ UNCHANGED others

-----------------------------------------------------------------------------
(* A caller of the exported transport functions, with any arguments *)

ApiCallOpenAI(i) ==
    /\ task[i].kind = "idle"
    /\ \E userText \in Texts, apiKey \in ApiKeys :
           task' = [task EXCEPT ![i] =
                        callOpenAI([Idle EXCEPT !.kind = "api"], userText, apiKey)]
    /\ UNCHANGED others

ApiCallOpenAIDraft(i) ==
    /\ task[i].kind = "idle"
    /\ \E userText \in Texts, apiKey \in ApiKeys :
           task' = [task EXCEPT ![i] =
                        callOpenAIDraft([Idle EXCEPT !.kind = "api"], userText, apiKey)]
    /\ UNCHANGED others

\* opts.systemPrompt: absent or empty, blank, or a text
SystemPrompts == {"", "  ", "Be brief."}

ApiCallOpenAIWithFiles(i) ==
    /\ task[i].kind = "idle"
    /\ \E userText \in Texts, apiKey \in ApiKeys, files \in FileArgs,
          systemPrompt \in SystemPrompts :
           task' = [task EXCEPT ![i] =
                        callOpenAIWithFiles([Idle EXCEPT !.kind = "api",
                                                         !.sys = systemPrompt],
                                            userText, files, apiKey, "", systemPrompt)]
    /\ UNCHANGED others

\* fetch rejects with a network error
ApiFetchFails(i) ==
    /\ task[i].kind = "api"
    /\ task[i].pc = "fetch"
    /\ \E e \in NetErrors : task' = [task EXCEPT ![i] = OnFetchThrow(task[i], e)]
    /\ UNCHANGED others

\* res.text() settles; .catch(() => "") turns a rejection into the empty text
ApiBodySettles(i) ==
    /\ task[i].kind = "api"
    /\ task[i].pc = "text"
    /\ \E rawText \in Bodies \cup {BodyIncorrectKey(task[i].req.auth)} :
           task' = [task EXCEPT ![i] = Classify(task[i], rawText)]
    /\ UNCHANGED others

\* the caller takes the outcome
ApiReturn(i) ==
    /\ task[i].kind = "api"
    /\ task[i].pc = "callDone"
    /\ task' = [task EXCEPT ![i] = Idle]
    /\ UNCHANGED others

(* A caller of the resolver's entry points, on any state of the host *)
Selections == SeqsUpTo(ItemIds, MaxSel)

ResolverCall(i) ==
    /\ task[i].kind = "idle"
    /\ \E sel \in Selections, reader \in {NoItem, LonePdf, GoodPdf}, paneFails \in BOOLEAN :
           task' = [task EXCEPT ![i] =
                        [Idle EXCEPT !.kind = "resolver", !.pc = "loaded",
                                     !.arg = [sel |-> sel, reader |-> reader,
                                              paneFails |-> paneFails],
                                     !.load = loadSelectedPdfAsInputFile(sel, reader, paneFails)]]
    /\ UNCHANGED others

ResolverReturn(i) ==
    /\ task[i].kind = "resolver"
    /\ task' = [task EXCEPT ![i] = Idle]
    /\ UNCHANGED others

\* a direct call of findFirstPdfAttachment(item), null included
FindCall(i) ==
    /\ task[i].kind = "idle"
    /\ \E id \in ItemIds \cup {NoItem} :
           task' = [task EXCEPT ![i] =
                        [Idle EXCEPT !.kind = "find", !.pc = "found", !.note = id,
                                     !.load = LoadNull(findFirstPdfAttachment(id))]]
    /\ UNCHANGED others

\* readAttachmentToBase64(attachment) on any item of the library
ReadCall(i) ==
    /\ task[i].kind = "idle"
    /\ \E id \in ItemIds \cup {NoItem} :
           task' = [task EXCEPT ![i] =
                        [Idle EXCEPT !.kind = "read", !.pc = "read", !.note = id,
                                     !.payload = readAttachmentToBase64(id)]]
    /\ UNCHANGED others

\* the caller takes the result
HelperReturn(i) ==
    /\ task[i].kind \in {"find", "read"}
    /\ task' = [task EXCEPT ![i] = Idle]
    /\ UNCHANGED others

(* normalizeBase64 on any text of base64 characters, padding and whitespace *)
B64Chars == {"A", "=", " ", "\n"}
B64Inputs == SeqsUpTo(B64Chars, MaxB64)

\* normalizeBase64(raw)
NormalizeCall(i) ==
    /\ task[i].kind = "idle"
    /\ \E raw \in B64Inputs :
           task' = [task EXCEPT ![i] =
                        [Idle EXCEPT !.kind = "normalize", !.pc = "once", !.text = raw,
                                     !.payload = Payload(normalizeBase64(raw), "", "", "")]]
    /\ UNCHANGED others

\* normalizeBase64 applied to its own result, as assertAndExplainBase64 and
\* readAttachmentToBase64 do
NormalizeAgain(i) ==
    /\ task[i].kind = "normalize"
    /\ task[i].pc = "once"
    /\ task' = [task EXCEPT ![i].pc = "twice",
                            ![i].payload = Payload(normalizeBase64(task[i].payload.base64),
                                                   "", "", "")]
    /\ UNCHANGED others

NormalizeReturn(i) ==
    /\ task[i].kind = "normalize"
    /\ task' = [task EXCEPT ![i] = Idle]
    /\ UNCHANGED others

-----------------------------------------------------------------------------
(* What the UI shows *)


(* normalizeLLMResponse *)

Sources ==
    { "responses.output_text", "responses.output_text[]",
      "responses.output.assistant.content.text", "responses.output.content.text",
      "chat.choices.message", "chat.choices.text", "string", "json-stringify", "unknown" }

\* a returned { text, source }
Normalized(text, source) == [text |-> text, source |-> source, threw |-> FALSE]

\* an exception leaving normalizeLLMResponse
NormalizeThrows == [text |-> "", source |-> "", threw |-> TRUE]

\* pushMaybe gone wrong: every string is kept
PushAlways(str) == str

\* joinTextParts: pushMaybe keeps a string that is not blank
PushMaybe(str) == IF StrTrim(str) # "" THEN str ELSE ""

RECURSIVE VisitNode(_)
RECURSIVE joinTextParts(_)
\* joinTextParts: visit(node), as the text it adds to out
VisitNode(node) ==
    IF ~Truthy(node) THEN ""
    ELSE IF Get(node, "text").t = "string" THEN PushMaybe(Get(node, "text").s)
    ELSE IF Get(node, "value").t = "string" THEN PushMaybe(Get(node, "value").s)
    ELSE IF Get(node, "content").t = "array" THEN joinTextParts(Get(node, "content").a)
    ELSE IF node.t = "string" THEN PushMaybe(node.s)
    ELSE ""

\* for (const p of parts) visit(p); return out.join("")
joinTextParts(parts) ==
    IF parts = << >> THEN "" ELSE VisitNode(Head(parts)) \o joinTextParts(Tail(parts))

RECURSIVE LastAssistantFrom(_, _)
\* the scan of findLastAssistantMessage from index k down
LastAssistantFrom(a, k) ==
    IF k = 0 THEN Coalesce(a[Len(a)], JNull)
    ELSE IF a[k].t = "object" /\ Get(a[k], "role") = JStr("assistant") THEN a[k]
    ELSE LastAssistantFrom(a, k - 1)

\* findLastAssistantMessage: the last assistant message, else the last entry
findLastAssistantMessage(outputArr) ==
    IF outputArr.t # "array" \/ outputArr.a = << >> THEN JNull
    ELSE LastAssistantFrom(outputArr.a, Len(outputArr.a))

\* what one shape probe finds: hit, and the text it returns when hit
Probe(hit, text) == [hit |-> hit, text |-> text]

\* probe a) gone wrong: the trimmed text is returned
ProbeOutputTextTrimmed(obj) ==
    IF Get(obj, "output_text").t = "string"
    THEN Probe(StrTrim(Get(obj, "output_text").s) # "", StrTrim(Get(obj, "output_text").s))
    ELSE Probe(FALSE, "")

\* a) typeof obj.output_text === "string" && obj.output_text.trim()
ProbeOutputText(obj) ==
    IF Get(obj, "output_text").t = "string"
    THEN Probe(StrTrim(Get(obj, "output_text").s) # "", Get(obj, "output_text").s)
    ELSE Probe(FALSE, "")

RECURSIVE NonEmptyStrings(_)
\* .map(s => typeof s === "string" ? s : "").filter(Boolean)
NonEmptyStrings(a) ==
    IF a = << >> THEN << >>
    ELSE IF Head(a).t = "string" /\ Head(a).s # ""
    THEN << Head(a).s >> \o NonEmptyStrings(Tail(a))
    ELSE NonEmptyStrings(Tail(a))

JoinedNotBlank(joined) == Probe(StrTrim(joined) # "", joined)

\* b) output_text as an array of strings, joined with a blank line
ProbeOutputTextArray(obj) ==
    IF Get(obj, "output_text").t = "array" /\ Get(obj, "output_text").a # << >>
    THEN JoinedNotBlank(JoinStrings(NonEmptyStrings(Get(obj, "output_text").a), "\n\n"))
    ELSE Probe(FALSE, "")

\* content is an array with entries whose joined text is not blank
ProbeContent(content) ==
    IF content.t = "array" /\ content.a # << >>
    THEN JoinedNotBlank(joinTextParts(content.a))
    ELSE Probe(FALSE, "")

HasOutput(obj) == Get(obj, "output").t = "array" /\ Get(obj, "output").a # << >>

\* c) output[]: the content of the last assistant message
ProbeAssistantContent(obj) ==
    IF HasOutput(obj)
    THEN ProbeContent(Get(findLastAssistantMessage(Get(obj, "output")), "content"))
    ELSE Probe(FALSE, "")

\* c) output[]: the content of output[0]
ProbeFirstContent(obj) ==
    IF HasOutput(obj)
    THEN ProbeContent(Get(Elem(Get(obj, "output"), 1), "content"))
    ELSE Probe(FALSE, "")

\* Array.isArray(obj.choices) ? obj.choices[0] : undefined
Choice0(obj) == Elem(Get(obj, "choices"), 1)

TruthyAsString(v) == Probe(Truthy(v), StringOf(v))

\* choice0?.message?.content
ProbeChatMessage(obj) == TruthyAsString(Get(Get(Choice0(obj), "message"), "content"))

\* choice0?.text
ProbeChatText(obj) == TruthyAsString(Get(Choice0(obj), "text"))

\* the object branch gone wrong: the chat shapes are probed first
NormalizeObjectChatFirst(obj) ==
    IF ProbeChatMessage(obj).hit
    THEN Normalized(ProbeChatMessage(obj).text, "chat.choices.message")
    ELSE IF ProbeChatText(obj).hit
    THEN Normalized(ProbeChatText(obj).text, "chat.choices.text")
    ELSE IF ProbeOutputText(obj).hit
    THEN Normalized(ProbeOutputText(obj).text, "responses.output_text")
    ELSE Normalized(JSONStringify(obj), "json-stringify")

\* the object branch: the probes in their order, then the JSON dump
NormalizeObject(obj) ==
    IF ProbeOutputText(obj).hit
    THEN Normalized(ProbeOutputText(obj).text, "responses.output_text")
    ELSE IF ProbeOutputTextArray(obj).hit
    THEN Normalized(ProbeOutputTextArray(obj).text, "responses.output_text[]")
    ELSE IF ProbeAssistantContent(obj).hit
    THEN Normalized(ProbeAssistantContent(obj).text, "responses.output.assistant.content.text")
    ELSE IF ProbeFirstContent(obj).hit
    THEN Normalized(ProbeFirstContent(obj).text, "responses.output.content.text")
    ELSE IF ProbeChatMessage(obj).hit
    THEN Normalized(ProbeChatMessage(obj).text, "chat.choices.message")
    ELSE IF ProbeChatText(obj).hit
    THEN Normalized(ProbeChatText(obj).text, "chat.choices.text")
    ELSE Normalized(JSONStringify(obj), "json-stringify")

\* the string looks like a JSON object or array
LooksLikeJson(trimmed) ==
    \/ StrStartsWith(trimmed, "{") /\ StrEndsWith(trimmed, "}")
    \/ StrStartsWith(trimmed, "[") /\ StrEndsWith(trimmed, "]")

\* the catch gone wrong: the SyntaxError of JSON.parse leaves the function
OnParseErrorRethrows(trimmed) == NormalizeThrows

\* catch { /* fall through */ } return { text: trimmed, source: "string" }
OnParseError(trimmed) == Normalized(trimmed, "string")

\* the string branch gone wrong: JSON inside a string is never parsed
NormalizeStringNoParse(trimmed) == Normalized(trimmed, "string")

\* the last branch gone wrong: null and undefined are coerced like the rest
NormalizePrimitiveNoDefault(raw) == Normalized(StringOf(raw), "unknown")

\* return { text: String(raw ?? ""), source: "unknown" }
NormalizePrimitive(raw) == Normalized(StringOf(Coalesce(raw, JStr(""))), "unknown")

RECURSIVE normalizeLLMResponse(_)
\* the string branch, on the trimmed string
NormalizeString(trimmed) ==
    IF LooksLikeJson(trimmed)
    THEN IF JSONParse(trimmed).ok
         THEN normalizeLLMResponse(JSONParse(trimmed).v)
         ELSE OnParseError(trimmed)
    ELSE Normalized(trimmed, "string")

\* normalizeLLMResponse: [text, source], threw when an exception leaves it
normalizeLLMResponse(raw) ==
    IF raw.t = "string" THEN NormalizeString(StrTrim(raw.s))
    ELSE IF IsObjectType(raw) THEN NormalizeObject(raw)
    ELSE NormalizePrimitive(raw)

(* A caller of normalizeLLMResponse, with any value the transport can return *)

TextPart(text) == JObj([type |-> JStr("output_text"), text |-> JStr(text)])
Message(role, content) == JObj([role |-> JStr(role), content |-> JArr(content)])

\* a tool_result block whose content nests a value block, a string, null and a blank
ToolResult ==
    JObj([type |-> JStr("tool_result"),
          content |-> JArr(<< JObj([value |-> JStr("V")]), JStr("S"), JNull, JStr(" ") >>)])

OutputTextFields ==
    { JUndef, JStr("hello"), JStr(" hello\n"), JStr("  "), JStr(""), JNum(7),
      JArr(<< JStr("a"), JNum(1), JStr("b") >>), JArr(<< JStr(" ") >>), JArr(<< >>) }

OutputFields ==
    { JUndef, JArr(<< >>), JStr("oops"),
      JArr(<< Message("assistant", << TextPart("A1") >>) >>),
      JArr(<< Message("user", << TextPart("U1") >>), Message("assistant", << >>) >>),
      JArr(<< Message("assistant", << TextPart("A1") >>), Message("user", << TextPart("U1") >>) >>),
      JArr(<< Message("user", << TextPart("U1") >>) >>),
      JArr(<< JObj([content |-> JArr(<< ToolResult >>)]) >>),
      JArr(<< Message("assistant", << TextPart("a"), TextPart(" "), TextPart("b") >>) >>),
      JArr(<< Message("user", << TextPart("U1") >>), Message("assistant", << TextPart(" ") >>) >>),
      JArr(<< Message("assistant", << TextPart("A1") >>),
              Message("assistant", << JObj([text |-> JNum(5), value |-> JStr("V2")]), ToolResult >>),
              Message("user", << TextPart("U1") >>) >>) }

ChoicesFields ==
    { JUndef, JArr(<< >>), JArr(<< JNull >>),
      JArr(<< JObj([message |-> JObj([content |-> JStr("x")])]) >>),
      JArr(<< JObj([text |-> JStr("t")]) >>),
      JArr(<< JObj([text |-> JStr(" ")]) >>),
      JArr(<< JObj([message |-> JObj([content |-> JStr("x")]), text |-> JStr("t")]) >>),
      JArr(<< JObj([message |-> JObj([content |-> JNum(5)])]) >>),
      JArr(<< JObj([message |-> JObj([content |-> JArr(<< JStr("p"), JNull, JNum(2) >>)])]) >>) }

\* the objects: every combination of the three fields the probes read
RawObjects ==
    { JObj([output_text |-> a, output |-> b, choices |-> c]) :
          a \in OutputTextFields, b \in OutputFields, c \in ChoicesFields }
    \cup { JObj([foo |-> JNum(1)]), JArr(<< >>), JArr(<< JNum(1), JStr("two") >>) }

RawStrings ==
    { JStr("hello"), JStr("  hi \n"), JStr(""), JStr("   "),
      JStr(BodyAnswer), JStr(" " \o BodyAnswer \o "\n"), JStr(BodyFoo), JStr(BodyChat),
      JStr(BodyArray), JStr("{not json}"), JStr("[1,2"), JStr(BodyHtml) }

RawPrimitives == { JNull, JUndef, JNum(0), JNum(42), JBool(FALSE), JBool(TRUE) }

RawInputs == RawObjects \cup RawStrings \cup RawPrimitives

\* normalizeLLMResponse(raw)
LlmNormalizeCall(i) ==
    /\ task[i].kind = "idle"
    /\ \E raw \in RawInputs :
           task' = [task EXCEPT ![i] =
                        [Idle EXCEPT !.kind = "llmNormalize", !.pc = "normalized",
                                     !.out = Return(raw),
                                     !.norm = normalizeLLMResponse(raw)]]
    /\ UNCHANGED others

\* the caller takes the result
LlmNormalizeReturn(i) ==
    /\ task[i].kind = "llmNormalize"
    /\ task' = [task EXCEPT ![i] = Idle]
    /\ UNCHANGED others

-----------------------------------------------------------------------------
(* The chat note: appendChatExchange *)

BEGIN_MARK == "<!-- BEGIN: ai-chat-block -->"
END_MARK == "<!-- END: ai-chat-block -->"

\* html: the body the note object holds; saved: the body the library holds;
\* base, appends: the body before the appends that succeeded one after another
\* since, and their number; calls: the calls of appendChatExchange so far
NoChatNote == [html |-> "", saved |-> "", base |-> "", appends |-> 0, calls |-> 0]

RECURSIVE Concat(_, _, _)
\* the pieces lo .. hi of a text, put together
Concat(pieces, lo, hi) ==
    IF lo > hi THEN ""
    ELSE IF lo = hi THEN pieces[lo]
    ELSE Concat(pieces, lo, (lo + hi) \div 2) \o Concat(pieces, (lo + hi) \div 2 + 1, hi)

\* s.replace(/c/g, r) for a character c
ReplaceAll(s, c, r) ==
    Concat([k \in 1 .. Len(s) |-> IF SubSeq(s, k, k) = c THEN r ELSE SubSeq(s, k, k)],
           1, Len(s))

\* escapeHtml gone wrong: the text is put into the block as it is
escapeHtmlNone(s) == s

\* String(s).replace(/&/g, "&amp;").replace(/</g, "&lt;").replace(/>/g, "&gt;")
escapeHtml(s) ==
    ReplaceAll(ReplaceAll(ReplaceAll(s, "&", "&amp;"), "<", "&lt;"), ">", "&gt;")

\* s.replace(/\r?\n/g, "<br>"): a line feed, with the carriage return before it
LineBreaks(s) ==
    Concat([k \in 1 .. Len(s) |->
               IF SubSeq(s, k, k) = "\n" THEN "<br>"
               ELSE IF SubSeq(s, k, k) = "\r" /\ k < Len(s) /\ SubSeq(s, k + 1, k + 1) = "\n"
               THEN ""
               ELSE SubSeq(s, k, k)],
           1, Len(s))

\* n < 10 ? `0${n}` : String(n)
pad2(n) == IF n < 10 THEN "0" \o ToString(n) ELSE ToString(n)

\* `${year}-${pad2(month + 1)}-${pad2(date)} ${pad2(hours)}:${pad2(minutes)}`
Timestamp(when) ==
    ToString(when.year) \o "-" \o pad2(when.month + 1) \o "-" \o pad2(when.date)
        \o " " \o pad2(when.hours) \o ":" \o pad2(when.minutes)

\* the fields of the Date a caller passes
Whens ==
    { [year |-> 2025, month |-> 0, date |-> 9, hours |-> 7, minutes |-> 5],
      [year |-> 2025, month |-> 11, date |-> 31, hours |-> 23, minutes |-> 59] }

\* the assistantText argument: absent, or a string
NoAssistant == [has |-> FALSE, text |-> ""]
Assistant(text) == [has |-> TRUE, text |-> text]

\* .filter(Boolean) on the lines of the block: the empty line goes
NonEmptyLines(lines) == SelectSeq(lines, LAMBDA l : l # "")

\* the block of one exchange; "*" stands for the bullet and "..." for the
\* ellipsis glyph
ChatBlock(userText, when, assistant) ==
    JoinStrings(
        NonEmptyLines(
            << BEGIN_MARK,
               "<p><strong>User</strong> * <em>" \o Timestamp(when) \o "</em></p>",
               "<blockquote>" \o LineBreaks(escapeHtml(userText)) \o "</blockquote>",
               "",
               "<p><strong>Assistant</strong> * <em>" \o Timestamp(when) \o "</em></p>",
               "<blockquote>"
                   \o (IF assistant.has THEN LineBreaks(escapeHtml(assistant.text))
                       ELSE "<em>pending...</em>")
                   \o "</blockquote>",
               "<hr>",
               "<p><small>source: ai:chat * status: "
                   \o (IF assistant.has THEN "ok" ELSE "pending")
                   \o " * plugin:v0.1</small></p>",
               END_MARK >>),
        "\n")

\* note.setNote((html ? html + "\n" : "") + block + "\n")
WithBlock(html, block) == (IF html # "" THEN html \o "\n" ELSE "") \o block \o "\n"

\* the texts of an exchange: plain, with the characters escapeHtml replaces and
\* line breaks, and the markers themselves; the answer may be absent
Exchanges ==
    { [user |-> "hi", assistant |-> NoAssistant],
      [user |-> "a&b\r\n<c>\n", assistant |-> Assistant(BEGIN_MARK \o END_MARK)],
      [user |-> BEGIN_MARK \o END_MARK, assistant |-> Assistant("ok")] }

\* the bodies the note has when the first exchange is appended
NoteBodies == { "", "<p>AI chat</p>", BEGIN_MARK \o "\nold\n" \o END_MARK \o "\n" }

\* appendChatExchange(note, userText, when, assistantText) up to its await of
\* saveTx(): the body is read, the block built and the new body set
AppendCall(i) ==
    /\ task[i].kind = "idle"
    /\ chatNote.calls < MaxAppends
    /\ \E x \in Exchanges, when \in Whens :
           /\ task' = [task EXCEPT ![i] =
                          [Idle EXCEPT !.kind = "append", !.pc = "saving",
                                       !.raw = x.user, !.ans = x.assistant.text]]
           /\ chatNote' = [chatNote EXCEPT
                              !.calls = @ + 1,
                              !.html = WithBlock(chatNote.html,
                                                 ChatBlock(x.user, when, x.assistant))]
    /\ UNCHANGED << isInserting, textarea, insertBtn, notices, activeNote,
                    noteBlocks, prefs, selection, dlgKey, dlgPrompt, dlgOutput, ignored,
                    win >>

\* saveTx() resolves: the append has succeeded
AppendSaved(i) ==
    /\ task[i].kind = "append"
    /\ task[i].pc = "saving"
    /\ task' = [task EXCEPT ![i] = Idle]
    /\ chatNote' = [chatNote EXCEPT !.saved = chatNote.html, !.appends = @ + 1]
    /\ UNCHANGED << isInserting, textarea, insertBtn, notices, activeNote,
                    noteBlocks, prefs, selection, dlgKey, dlgPrompt, dlgOutput, ignored,
                    win >>

\* saveTx() rejects: warn and rethrow.  The body that was set is not taken
\* back by the code; the host keeps it in the note object or reloads the saved
\* one.  A run of successful appends starts again from the body that is left
AppendSaveFails(i) ==
    /\ task[i].kind = "append"
    /\ task[i].pc = "saving"
    /\ task' = [task EXCEPT ![i] = Idle]
    /\ \E left \in {chatNote.html, chatNote.saved} :
           chatNote' = [chatNote EXCEPT !.html = left, !.base = left, !.appends = 0]
    /\ UNCHANGED << isInserting, textarea, insertBtn, notices, activeNote,
                    noteBlocks, prefs, selection, dlgKey, dlgPrompt, dlgOutput, ignored,
                    win >>

\* the chat note getSelectedChatNote() finds in the pane's selection, NoItem for null
getSelectedChatNote ==
    IF selection # << >> /\ Item(selection[1]).isNote THEN selection[1] ELSE NoItem

\* a || b on texts
OrElse(a, b) == IF a # << >> THEN a ELSE b

\* restoreBtn(); labels and messages are written in ASCII: "..." for the
\* ellipsis glyph, "(!)" for the warning sign, "(~)" for the hourglass
restoreBtn == [disabled |-> FALSE, label |-> "Insert to note"]
SendingBtn == [disabled |-> TRUE, label |-> "Sending..."]

\* the guard gone wrong: it never sees a running invocation
ReentrantNever == FALSE

\* if (isInserting) return;
Reentrant == isInserting

\* the finally block gone wrong: the flag is left as it is
FinallySkipped == isInserting

\* finally { restoreBtn(); isInserting = false; }
FinallyInserting == FALSE

RECURSIVE WithDataPrefix(_)
\* files.map(f => f.file_data.startsWith("data:") ? f : "data:application/pdf;base64," + f.file_data)
WithDataPrefix(files) ==
    IF files = << >> THEN << >>
    ELSE << [Head(files) EXCEPT !.prefix = IF Head(files).prefix = "" THEN DataPrefix
                                           ELSE Head(files).prefix] >>
         \o WithDataPrefix(Tail(files))

-----------------------------------------------------------------------------
(* The pane the UI runs over *)

\* what the user selects in the pane
UiSelections == { << >>, << NoteA >>, << NoteB >>, << FlakyPaper >> }

\* what the pane's selection can be: the user's choice, or the host a note hangs from
PaneSelections == UiSelections \cup { << Item(n).parent >> : n \in {NoteA, NoteB} }

\* the item open in the reader tab, NoItem when there is none
ReaderItems == {NoItem, LonePdf}

\* loadSelectedPdfFiles() on every state of the pane; the table is computed once
LoadedFiles ==
    [ sel \in PaneSelections, reader \in ReaderItems, paneFails \in BOOLEAN |->
          loadSelectedPdfFiles(sel, reader, paneFails) ]

-----------------------------------------------------------------------------
(* The composer: onInsertClick and loadPdfFilesForChatNote *)

\* onInsertClick leaves through its finally block, having shown msg
InsertEnds(i, msg) ==
    /\ task' = [task EXCEPT ![i] = Idle]
    /\ notices' = msg
    /\ insertBtn' = restoreBtn
    /\ isInserting' = FinallyInserting

\* the finally block of loadPdfFilesForChatNote: the previous selection is put
\* back when there was one
RestoredSelection(prevSel, now) == IF prevSel # << >> THEN prevSel ELSE now

\* the catch gone wrong: the error is swallowed and the answer left empty
ErrorAnswerEmpty(llmErr) == ""

\* assistantText = `(!) OpenAI error: ${String(llmErr?.message || llmErr)}`
ErrorAnswer(llmErr) ==
    "(!) OpenAI error: " \o
        (IF llmErr.message # "" THEN llmErr.message
         ELSE IF llmErr.id = "Error" THEN "Error" ELSE "TypeError")

\* the invocation while appendChatExchange(note, userText, assistantText) runs
Appending(t, assistantText) ==
    [Idle EXCEPT !.kind = t.kind, !.pc = "saving", !.note = t.note, !.text = t.text,
                 !.ans = assistantText, !.key = t.key, !.files = t.files,
                 !.sys = t.sys, !.res = t.res, !.raw = t.raw, !.out = t.out,
                 !.logs = t.logs]

\* the system prompt of the composer when the preference is empty
COMPOSER_SYSTEM_PROMPT ==
    "You are a helpful scientific literature assistant. Reply concisely, format lists when helpful."

\* String(pref("openaiSystemPrompt") ?? ... ?? "").trim() || "You are a helpful ..."
systemPromptPref ==
    IF StrTrim(prefs.openaiSystemPrompt) # "" THEN StrTrim(prefs.openaiSystemPrompt)
    ELSE COMPOSER_SYSTEM_PROMPT

\* log("ChatNoteComposer.llm.keyMeta", { hasKey, keyPreview })
KeyMetaLogged(t, apiKey) == log(t, "ChatNoteComposer.llm.keyMeta", KeyMeta(apiKey))

\* log("ChatNoteComposer.llm.ok", { source, answerLen, withPdf })
LlmOkLogged(t, norm) ==
    log(t, "ChatNoteComposer.llm.ok",
        << Field("source", JStr(norm.source)),
           Field("answerLen", JNum(Len(StrTrim(norm.text)))),
           Field("withPdf", JBool(t.files # << >>)) >>)

\* warn("ChatNoteComposer.llm.error", { message: String(llmErr) })
LlmErrorLogged(t) ==
    warn(t, "ChatNoteComposer.llm.error", << Field("message", JStr(ErrorText(t.out.err))) >>)

\* the line of the try / catch around the LLM call, once the call has settled
LlmLogged(t) ==
    IF t.out.tag = "return" THEN LlmOkLogged(t, normalizeLLMResponse(t.out.val))
    ELSE LlmErrorLogged(t)

\* appendChatExchange up to its await of saveTx: setNote appends one block
InsertAppends(i, t, assistantText) ==
    /\ task' = [task EXCEPT ![i] = Appending(t, assistantText)]
    /\ noteBlocks' = noteBlocks + 1
    /\ UNCHANGED << isInserting, textarea, insertBtn, notices, activeNote, prefs,
                    dlgKey, dlgPrompt, dlgOutput, ignored, chatNote, win >>

\* onInsertClick once callOpenAIWithFiles has settled with t.out
InsertAfterCall(i, t) ==
    IF t.pc # "callDone"
    THEN /\ task' = [task EXCEPT ![i] = t]
         /\ UNCHANGED << isInserting, textarea, insertBtn, notices, activeNote,
                         noteBlocks, prefs, dlgKey, dlgPrompt, dlgOutput, ignored, chatNote, win >>
    ELSE IF t.out.tag = "return"
    THEN InsertAppends(i, LlmLogged(t), normalizeLLMResponse(t.out.val).text)
    ELSE InsertAppends(i, LlmLogged(t), ErrorAnswer(t.out.err))

\* onInsertClick from the files to the await inside callOpenAIWithFiles
InsertCalls(i, t, filesForApi) ==
    \E t1 \in {callOpenAIWithFiles(t, t.text, filesForApi, t.key, "", t.sys)} :
        InsertAfterCall(i, t1)

\* the key check gone wrong: an empty key is let through
KeyNeverMissing(apiKey) == FALSE

\* if (!apiKey) { notify("OpenAI API key is missing. ..."); return; }
KeyMissing(apiKey) == apiKey = << >>

\* a new invocation takes the first free slot
FreeSlot(i) ==
    /\ task[i].kind = "idle"
    /\ \A j \in Tasks : j < i => task[j].kind # "idle"

\* a click on Insert, or Ctrl/Cmd+Enter in the textarea
InsertClick(i) ==
    /\ FreeSlot(i)
    /\ IF Reentrant
       THEN /\ ignored < MaxIgnored
            /\ ignored' = ignored + 1
            /\ UNCHANGED << chatNote, win >>
            /\ UNCHANGED << task, isInserting, textarea, insertBtn, notices, activeNote,
                            noteBlocks, prefs, selection, dlgKey, dlgPrompt, dlgOutput >>
       ELSE /\ noteBlocks < MaxBlocks
            /\ LET selectedNow == getSelectedChatNote
                   targetNote == IF selectedNow # NoItem THEN selectedNow ELSE activeNote
                   userText == Trim(textarea)
                   apiKey == OrElse(Trim(prefs.llmKey), Trim(prefs.openaiApiKey))
                   host == Item(targetNote).parent
                   t == KeyMetaLogged([Idle EXCEPT !.kind = "insert", !.note = targetNote,
                                                   !.text = userText, !.key = apiKey,
                                                   !.sys = systemPromptPref],
                                      apiKey)
               IN  /\ activeNote' = IF selectedNow # NoItem THEN selectedNow ELSE activeNote
                   /\ UNCHANGED << textarea, prefs, dlgKey, dlgPrompt, dlgOutput, ignored, chatNote, win >>
                   /\ IF targetNote = NoItem
                      THEN InsertEnds(i, "Select a chat note first.")
                           /\ UNCHANGED << noteBlocks, selection >>
                      ELSE IF userText = << >>
                      THEN InsertEnds(i, "Prompt is empty.")
                           /\ UNCHANGED << noteBlocks, selection >>
                      ELSE IF KeyMissing(apiKey)
                      THEN InsertEnds(i, "OpenAI API key is missing. Set it in Preferences.")
                           /\ UNCHANGED << noteBlocks, selection >>
                      ELSE \E paneFails \in BOOLEAN :
                             IF paneFails \/ host = NoItem
                             THEN \* getSelectedItems() raised, or no host: no files
                                  /\ isInserting' = TRUE
                                  /\ insertBtn' = SendingBtn
                                  /\ UNCHANGED << notices, selection >>
                                  /\ LET t1 == callOpenAIWithFiles(t, userText, << >>, apiKey,
                                                                   "", t.sys)
                                     IN  IF t1.pc = "callDone"
                                         THEN /\ task' = [task EXCEPT ![i] =
                                                     Appending(LlmErrorLogged(t1),
                                                               ErrorAnswer(t1.out.err))]
                                              /\ noteBlocks' = noteBlocks + 1
                                         ELSE /\ task' = [task EXCEPT ![i] = t1]
                                              /\ UNCHANGED noteBlocks
                             ELSE \* the host is selected, then sleep(30)
                                  /\ isInserting' = TRUE
                                  /\ insertBtn' = SendingBtn
                                  /\ selection' = << host >>
                                  /\ task' = [task EXCEPT ![i] =
                                                 [t EXCEPT !.pc = "sleep", !.prevSel = selection]]
                                  /\ UNCHANGED << notices, noteBlocks >>

\* sleep(30) is over: loadSelectedPdfFiles() reads the selection of this moment
InsertWakes(i) ==
    /\ task[i].kind = "insert"
    /\ task[i].pc = "sleep"
    /\ \E reader \in ReaderItems, paneFails \in BOOLEAN :
           task' = [task EXCEPT ![i].pc = "resolving",
                                ![i].load = LoadedFiles[selection, reader, paneFails]]
    /\ UNCHANGED others

\* loadSelectedPdfFiles() settles: the selection is restored and the request sent
InsertResolved(i) ==
    /\ task[i].kind = "insert"
    /\ task[i].pc = "resolving"
    /\ selection' = RestoredSelection(task[i].prevSel, selection)
    /\ \E l \in {task[i].load} :
       \E filesForApi \in {IF l.tag = "files" THEN WithDataPrefix(l.files) ELSE << >>} :
           InsertCalls(i, task[i], filesForApi)

\* fetch rejects with a network error
InsertFetchFails(i) ==
    /\ task[i].kind = "insert"
    /\ task[i].pc = "fetch"
    /\ \E e \in NetErrors :
         \E t1 \in {OnFetchThrow(task[i], e)} : InsertAfterCall(i, t1)
    /\ UNCHANGED selection

\* the bodies the provider answers the request of t with
AnswersTo(t) == {BodyIncorrectKey(t.req.auth), BodyAnswer, BodyPlain}

\* fetch resolves and res.text() settles; nothing the rest of the program can
\* see happens between the two, so they are taken in one step
InsertResponds(i) ==
    /\ task[i].kind = "insert"
    /\ task[i].pc = "fetch"
    /\ \E r \in ResponseHeads, rawText \in AnswersTo(task[i]) :
         \E t0 \in {OnFetchResolve(task[i], r)} :
         \E t1 \in {Classify(t0, rawText)} : InsertAfterCall(i, t1)
    /\ UNCHANGED selection

\* saveTx() resolves
InsertSaved(i) ==
    /\ task[i].kind = "insert"
    /\ task[i].pc = "saving"
    /\ InsertEnds(i, "Inserted to note.")
    /\ textarea' = << >>
    /\ UNCHANGED << activeNote, noteBlocks, prefs, selection, dlgKey, dlgPrompt,
                    dlgOutput, ignored, chatNote, win >>

\* the catch gone wrong: a rejected saveTx() is taken for a saved note
InsertSaveFailsUnnoticed(i) ==
    /\ task[i].kind = "insert"
    /\ task[i].pc = "saving"
    /\ InsertEnds(i, "Inserted to note.")
    /\ textarea' = << >>
    /\ UNCHANGED << activeNote, noteBlocks, prefs, selection, dlgKey, dlgPrompt,
                    dlgOutput, ignored, chatNote, win >>

\* saveTx() rejects
InsertSaveFails(i) ==
    /\ task[i].kind = "insert"
    /\ task[i].pc = "saving"
    /\ InsertEnds(i, "Failed to insert (see logs).")
    /\ UNCHANGED << textarea, activeNote, noteBlocks, prefs, selection, dlgKey,
                    dlgPrompt, dlgOutput, ignored, chatNote, win >>

(* The user and the host around the composer *)
TypePrompt ==
    /\ \E s \in Typed : textarea' = s
    /\ UNCHANGED << task, isInserting, insertBtn, notices, activeNote, noteBlocks,
                    prefs, selection, dlgKey, dlgPrompt, dlgOutput, ignored, chatNote, win >>

PrefChoices ==
    { [llmKey |-> << >>, openaiApiKey |-> << >>, openaiSystemPrompt |-> ""],
      [llmKey |-> << " " >>, openaiApiKey |-> PlainKey, openaiSystemPrompt |-> "  "],
      [llmKey |-> PlainKey, openaiApiKey |-> << >>, openaiSystemPrompt |-> "Be brief."] }

SetPrefs ==
    /\ \E p \in PrefChoices : prefs' = p
    /\ UNCHANGED << task, isInserting, textarea, insertBtn, notices, activeNote,
                    noteBlocks, selection, dlgKey, dlgPrompt, dlgOutput, ignored, chatNote, win >>

UserSelects ==
    /\ \E sel \in UiSelections : selection' = sel
    /\ UNCHANGED << task, isInserting, textarea, insertBtn, notices, activeNote,
                    noteBlocks, prefs, dlgKey, dlgPrompt, dlgOutput, ignored, chatNote, win >>

-----------------------------------------------------------------------------
(* The dialog: the Send and Send (PDF) callbacks of openAIChatDialog *)

PendingSend == "(~) Sending to OpenAI..."
PendingLoad == "(~) Loading PDF from Zotero..."
PendingSendPdf == "(~) Sending PDF to OpenAI..."
NoPdfFound == "No PDF found on the selected item. Select a library item with a PDF attachment and try again."

\* const key = typedKey || boundKey || savedKey; the key field is bound to data.key
DialogKey == OrElse(Trim(dlgKey), OrElse(Trim(dlgKey), Trim(prefs.llmKey)))

\* let text = normText.trim(); if (!text) the raw value is shown instead
FinalText(raw, text) ==
    IF text # "" THEN text
    ELSE IF IsObjectType(raw) \/ raw.t = "null" THEN JSONStringify(raw)
    ELSE StringOf(Coalesce(raw, JStr("")))

\* the final text: the normalised text, or the raw value when that is empty
DialogText(raw) == FinalText(raw, StrTrim(normalizeLLMResponse(raw).text))

\* the callback returns at once after window.alert(msg)
DialogAlerts(msg) ==
    /\ notices' = msg
    /\ UNCHANGED << task, isInserting, textarea, insertBtn, activeNote, noteBlocks,
                    prefs, selection, dlgKey, dlgPrompt, dlgOutput, ignored, chatNote, win >>

\* the system prompt of Send (PDF)
DIALOG_PDF_PROMPT ==
    "You are a scientific literature assistant. Use the attached PDF as the primary source. Always cite exact page numbers in parentheses (e.g., p. 3) for statements derived from the PDF."

\* log("ai.dialog.send.clicked", { hasKey, keyPreview, promptLen })
ClickLogged(t, message, key, userText) ==
    log(t, message, KeyMeta(key) \o << Field("promptLen", JNum(Len(userText))) >>)

\* f.file_data
FileData(f) == f.prefix \o TextOf(f.b64)

\* log("ai.dialog.sendPdf.filePreview", { count, filename, fileDataPrefix, hasDataPrefix })
FilePreviewLogged(t, filesForApi) ==
    log(t, "ai.dialog.sendPdf.filePreview",
        << Field("count", JNum(Len(filesForApi))),
           Field("filename", JStr(filesForApi[1].filename)),
           Field("fileDataPrefix", JStr(Slice(FileData(filesForApi[1]), 30))),
           Field("hasDataPrefix", JBool(HasPrefix(FileData(filesForApi[1]), DataPrefix))) >>)

\* the catch gone wrong: the key of a failed call is saved all the same
PrefsAfterErrorSaved(t) == [prefs EXCEPT !.llmKey = t.key]

\* catch (err) { data.output = `Error: ${msg}`; ... }: no preference is written
PrefsAfterError(t) == prefs

\* either callback once its LLM call has settled with t.out
DialogAfterCall(i, t) ==
    /\ UNCHANGED << isInserting, textarea, insertBtn, notices, activeNote, noteBlocks,
                    selection, dlgKey, dlgPrompt, ignored, chatNote, win >>
    /\ IF t.pc # "callDone"
       THEN /\ task' = [task EXCEPT ![i] = t]
            /\ UNCHANGED << prefs, dlgOutput >>
       ELSE /\ task' = [task EXCEPT ![i] = Idle]
            /\ IF t.out.tag = "return"
               THEN /\ \E raw \in {t.out.val} : dlgOutput' = DialogText(raw)
                    /\ prefs' = [prefs EXCEPT !.llmKey = t.key]
               ELSE /\ dlgOutput' = "Error: " \o t.out.err.message
                    /\ prefs' = PrefsAfterError(t)

\* a click on Send
SendClick(i) ==
    /\ FreeSlot(i)
    /\ \E key \in {DialogKey}, userText \in {Trim(dlgPrompt)} :
           IF key = << >> THEN DialogAlerts("Please enter OpenAI API key first.")
           ELSE IF userText = << >> THEN DialogAlerts("Prompt is empty.")
           ELSE /\ dlgOutput' = PendingSend
                /\ \E t1 \in {callOpenAI(ClickLogged([Idle EXCEPT !.kind = "send"],
                                                       "ai.dialog.send.clicked", key, userText),
                                           userText, key)} :
                       task' = [task EXCEPT ![i] = t1]
                /\ UNCHANGED << isInserting, textarea, insertBtn, notices, activeNote,
                                noteBlocks, prefs, selection, dlgKey, dlgPrompt, ignored, chatNote, win >>

\* a click on Send (PDF): loadSelectedPdfFiles() is called before any try
SendPdfClick(i) ==
    /\ FreeSlot(i)
    /\ \E key \in {DialogKey}, userText \in {Trim(dlgPrompt)} :
           IF key = << >> THEN DialogAlerts("Please enter OpenAI API key first.")
           ELSE IF userText = << >> THEN DialogAlerts("Prompt is empty.")
           ELSE /\ dlgOutput' = PendingLoad
                /\ \E reader \in ReaderItems, paneFails \in BOOLEAN :
                       task' = [task EXCEPT ![i] =
                                   ClickLogged(
                                       [Idle EXCEPT !.kind = "sendPdf", !.pc = "resolving",
                                                    !.text = userText, !.key = key,
                                                    !.load = LoadedFiles[selection, reader, paneFails]],
                                       "ai.dialog.sendPdf.clicked", key, userText)]
                /\ UNCHANGED << isInserting, textarea, insertBtn, notices, activeNote,
                                noteBlocks, prefs, selection, dlgKey, dlgPrompt, ignored, chatNote, win >>

\* loadSelectedPdfFiles() settles
SendPdfResolved(i) ==
    /\ task[i].kind = "sendPdf"
    /\ task[i].pc = "resolving"
    /\ \E l \in {task[i].load} :
           IF l.tag = "throw"
           THEN \* the callback's promise rejects; nothing is written
                /\ task' = [task EXCEPT ![i] = Idle]
                /\ UNCHANGED others
           ELSE IF l.files = << >>
           THEN /\ task' = [task EXCEPT ![i] = Idle]
                /\ dlgOutput' = NoPdfFound
                /\ UNCHANGED << isInserting, textarea, insertBtn, notices, activeNote,
                                noteBlocks, prefs, selection, dlgKey, dlgPrompt, ignored, chatNote, win >>
           ELSE /\ dlgOutput' = PendingSendPdf
                /\ \E filesForApi \in {WithDataPrefix(l.files)} :
                   \E t1 \in {callOpenAIWithFiles(FilePreviewLogged(task[i], filesForApi),
                                                   task[i].text, filesForApi, task[i].key,
                                                   "gpt-5", DIALOG_PDF_PROMPT)} :
                       task' = [task EXCEPT ![i] = t1]
                /\ UNCHANGED << isInserting, textarea, insertBtn, notices, activeNote,
                                noteBlocks, prefs, selection, dlgKey, dlgPrompt, ignored, chatNote, win >>

\* fetch rejects with a network error
DialogFetchFails(i) ==
    /\ task[i].kind \in {"send", "sendPdf"}
    /\ task[i].pc = "fetch"
    /\ \E e \in NetErrors :
         \E t1 \in {OnFetchThrow(task[i], e)} : DialogAfterCall(i, t1)

\* fetch resolves and res.text() settles, taken in one step
DialogResponds(i) ==
    /\ task[i].kind \in {"send", "sendPdf"}
    /\ task[i].pc = "fetch"
    /\ \E r \in ResponseHeads, rawText \in AnswersTo(task[i]) :
         \E t0 \in {OnFetchResolve(task[i], r)} :
         \E t1 \in {Classify(t0, rawText)} : DialogAfterCall(i, t1)

\* the user edits the key field
TypeKey ==
    /\ \E k \in KeyInputs : dlgKey' = k
    /\ UNCHANGED << task, isInserting, textarea, insertBtn, notices, activeNote,
                    noteBlocks, prefs, selection, dlgPrompt, dlgOutput, ignored, chatNote, win >>

\* the user edits the prompt field
TypeDialogPrompt ==
    /\ \E s \in Typed : dlgPrompt' = s
    /\ UNCHANGED << task, isInserting, textarea, insertBtn, notices, activeNote,
                    noteBlocks, prefs, selection, dlgKey, dlgOutput, ignored, chatNote, win >>

-----------------------------------------------------------------------------
(* The main window: the AI button (modules/aiButton.ts), the chat-note     *)
(* toolbar button (utils/chatNoteUi.ts, modules/chatNoteToolbar.ts) and the *)
(* installation of the composer                                            *)

\* A window.  toolbar, chatToolbar and container tell what its document
\* holds: a toolbar registerAIPanelButton finds, one getToolbarElement finds,
\* a body.  aiButtons are the AI buttons in the document, each named by the
\* number of its creation; state is the button held for the window in the
\* WeakMap (0: no entry); composers and chatBtns count the elements with id
\* "zai-chatnote-composer" and "zai-chatnote-btn"; made and adds count calls.
\* version tells which revision of chatNoteToolbar.ts is loaded.
Window(version, toolbar, chatToolbar, container) ==
    [ version |-> version, toolbar |-> toolbar, chatToolbar |-> chatToolbar,
      container |-> container, aiButtons |-> {}, state |-> 0, made |-> 0,
      composers |-> 0, chatBtns |-> 0, adds |-> 0, isRunning |-> FALSE, creates |-> 0 ]

\* a document before the plugin has touched it
FreshWindows ==
    { Window(v, tb, ctb, c) : v \in {2, 3}, tb \in BOOLEAN, ctb \in BOOLEAN, c \in BOOLEAN }

\* the window after onStartup: one AI button, the chat-note button, the composer
MainWindow ==
    [Window(3, TRUE, TRUE, TRUE) EXCEPT !.aiButtons = {1}, !.state = 1, !.made = 1,
                                         !.composers = 1, !.chatBtns = 1, !.adds = 1]

\* every variable but win
allButWin == << task, isInserting, textarea, insertBtn, notices, activeNote, noteBlocks,
                prefs, selection, dlgKey, dlgPrompt, dlgOutput, ignored, chatNote >>

\* registerAIPanelButton(win): tk.UI.createElement is called without
\* skipIfExists, so every call makes a new element; state.set replaces the entry
registerAIPanelButton(w) ==
    IF ~w.toolbar THEN w
    ELSE [w EXCEPT !.made = @ + 1, !.aiButtons = @ \cup {w.made + 1}, !.state = w.made + 1]

\* unregisterAIPanelButton(win): the button of the entry is removed, then the entry
unregisterAIPanelButton(w) == [w EXCEPT !.aiButtons = @ \ {w.state}, !.state = 0]

\* the check gone wrong: the composer is never found
ComposerNeverExists(w) == FALSE

\* doc.getElementById("zai-chatnote-composer")
ComposerExists(w) == w.composers > 0

\* initChatNoteComposer(win)
initChatNoteComposer(w) ==
    IF ComposerExists(w) \/ ~w.container THEN w ELSE [w EXCEPT !.composers = @ + 1]

\* doc.getElementById(spec.id)
ButtonExists(w) == w.chatBtns > 0

\* addToolbarButton({ id: BUTTON_ID, ... })
addToolbarButton(w) ==
    IF ~w.chatToolbar \/ ButtonExists(w) THEN w ELSE [w EXCEPT !.chatBtns = @ + 1]

\* removeToolbarButton(BUTTON_ID): the first element with the id is removed
removeToolbarButton(w) == IF w.chatBtns > 0 THEN [w EXCEPT !.chatBtns = @ - 1] ELSE w

\* hooks.ts: onMainWindowLoad(win), which has no await in its body
OnMainWindowLoad ==
    /\ win.made < MaxButtons
    /\ win' = initChatNoteComposer(registerAIPanelButton(win))
    /\ UNCHANGED allButWin

\* hooks.ts: onMainWindowUnload(win); ztoolkit.unregisterAll() acts on the
\* toolkit in addon.data, which made none of the buttons
OnMainWindowUnload ==
    /\ win' = unregisterAIPanelButton(win)
    /\ UNCHANGED allButWin

\* registerChatNoteToolbarButton(), from onStartup
RegisterChatNoteToolbarButton ==
    /\ win.adds < MaxButtons
    /\ win' = [addToolbarButton(win) EXCEPT !.adds = @ + 1]
    /\ UNCHANGED allButWin

\* unregisterChatNoteToolbarButton(), from onShutdown
UnregisterChatNoteToolbarButton ==
    /\ win' = removeToolbarButton(win)
    /\ UNCHANGED allButWin

\* it.parentItem: nothing for a top-level item
ParentItem(id) == IF Item(id).parent = id THEN NoItem ELSE Item(id).parent

\* getActiveParentItem(): tag "item" with the parent, "none" for null, "throw"
\* when the last isAttachment(), which is outside the try, raises
getActiveParentItem(sel) ==
    IF sel = << >> THEN [tag |-> "none", id |-> NoItem]
    ELSE LET raises(id) == "isAttachment" \in Item(id).throws
             it1 == IF raises(sel[1]) THEN sel[1]
                    ELSE IF Item(sel[1]).isAttachment THEN ParentItem(sel[1])
                    ELSE sel[1]
             it == IF raises(sel[1]) THEN sel[1]
                   ELSE IF Item(it1).isNote THEN ParentItem(it1)
                   ELSE it1
         IN  IF it = NoItem THEN [tag |-> "none", id |-> NoItem]
             ELSE IF raises(it) THEN [tag |-> "throw", id |-> NoItem]
             ELSE IF Item(it).isAttachment \/ Item(it).isNote THEN [tag |-> "none", id |-> NoItem]
             ELSE [tag |-> "item", id |-> it]

\* the chat note createChatNoteForParent(parent) makes, or findRecentEmptyChatNote finds
ChatNoteOf(parent) == CHOOSE n \in {NoteA, NoteB, NoteFlaky} : Item(n).parent = parent

\* the guard gone wrong: it never sees a running click
RunningNever == FALSE

\* if (isRunning) return;
Running == win.isRunning

\* the finally block of onChatNoteButtonClick: isRunning = false
ClickEnds(i) ==
    /\ task' = [task EXCEPT ![i] = Idle]
    /\ win' = [win EXCEPT !.isRunning = FALSE]

\* the click calls createChatNoteForParent(parent) and awaits it
ClickCreates(i, parent) ==
    /\ task' = [task EXCEPT ![i] = [Idle EXCEPT !.kind = "chatNote", !.pc = "creating",
                                                !.note = parent]]
    /\ win' = [win EXCEPT !.isRunning = TRUE, !.creates = @ + 1]

\* a click on the chat-note toolbar button
ChatNoteClick(i) ==
    /\ FreeSlot(i)
    /\ IF Running
       THEN /\ ignored < MaxIgnored
            /\ ignored' = ignored + 1
            /\ UNCHANGED << task, isInserting, textarea, insertBtn, notices, activeNote,
                            noteBlocks, prefs, selection, dlgKey, dlgPrompt, dlgOutput,
                            chatNote, win >>
       ELSE /\ win.creates < MaxCreates
            /\ UNCHANGED << isInserting, textarea, insertBtn, activeNote, noteBlocks, prefs,
                            selection, dlgKey, dlgPrompt, dlgOutput, ignored, chatNote >>
            /\ LET parent == getActiveParentItem(selection)
               IN  IF parent.tag = "none"
                   THEN /\ ClickEnds(i)
                        /\ notices' = IF win.version = 3 THEN "Select a parent item first"
                                      ELSE notices
                   ELSE IF parent.tag = "throw"
                   THEN \* the promise rejects (version 3) or the catch warns (version 2)
                        /\ ClickEnds(i)
                        /\ UNCHANGED notices
                   ELSE IF win.version = 3
                   THEN /\ ClickCreates(i, parent.id)
                        /\ UNCHANGED notices
                   ELSE /\ task' = [task EXCEPT ![i] =
                                       [Idle EXCEPT !.kind = "chatNote", !.pc = "finding",
                                                    !.note = parent.id]]
                        /\ win' = [win EXCEPT !.isRunning = TRUE]
                        /\ UNCHANGED notices

\* version 2: findRecentEmptyChatNote(parent, 3000) settles with a note, with
\* null or with an error
ChatNoteFound(i) ==
    /\ task[i].kind = "chatNote"
    /\ task[i].pc = "finding"
    /\ UNCHANGED << isInserting, textarea, insertBtn, noteBlocks, prefs, selection, dlgKey,
                    dlgPrompt, dlgOutput, ignored, chatNote >>
    /\ \E found \in {"note", "null", "throw"} :
           IF found = "note"
           THEN /\ activeNote' = ChatNoteOf(task[i].note)
                /\ notices' = "Chat note ready - opening..."
                /\ task' = [task EXCEPT ![i].pc = "opening",
                                        ![i].note = ChatNoteOf(task[i].note)]
                /\ UNCHANGED win
           ELSE IF found = "null"
           THEN /\ ClickCreates(i, task[i].note)
                /\ UNCHANGED << activeNote, notices >>
           ELSE /\ ClickEnds(i)
                /\ UNCHANGED << activeNote, notices >>

\* createChatNoteForParent(parent) resolves with the new note
ChatNoteCreated(i) ==
    /\ task[i].kind = "chatNote"
    /\ task[i].pc = "creating"
    /\ task' = [task EXCEPT ![i].pc = "opening", ![i].note = ChatNoteOf(task[i].note)]
    /\ IF win.version = 3
       THEN /\ notices' = "Chat note created - opening..."
            /\ UNCHANGED activeNote
       ELSE /\ notices' = "Chat note ready - opening..."
            /\ activeNote' = ChatNoteOf(task[i].note)
    /\ UNCHANGED << isInserting, textarea, insertBtn, noteBlocks, prefs, selection, dlgKey,
                    dlgPrompt, dlgOutput, ignored, chatNote, win >>

\* createChatNoteForParent(parent) rejects
ChatNoteCreateFails(i) ==
    /\ task[i].kind = "chatNote"
    /\ task[i].pc = "creating"
    /\ ClickEnds(i)
    /\ notices' = IF win.version = 3 THEN "Failed to create chat note (see logs)" ELSE notices
    /\ UNCHANGED << isInserting, textarea, insertBtn, activeNote, noteBlocks, prefs,
                    selection, dlgKey, dlgPrompt, dlgOutput, ignored, chatNote >>

\* openNotePreferTab(note) settles: the note is shown in the pane, or the
\* call fails and the catch warns
ChatNoteOpened(i) ==
    /\ task[i].kind = "chatNote"
    /\ task[i].pc = "opening"
    /\ ClickEnds(i)
    /\ \E shown \in BOOLEAN : selection' = IF shown THEN << task[i].note >> ELSE selection
    /\ UNCHANGED << isInserting, textarea, insertBtn, notices, activeNote, noteBlocks, prefs,
                    dlgKey, dlgPrompt, dlgOutput, ignored, chatNote >>

\* a step of a running onChatNoteButtonClick
ChatNoteStep(i) ==
    \/ ChatNoteFound(i)
    \/ ChatNoteCreated(i)
    \/ ChatNoteCreateFails(i)
    \/ ChatNoteOpened(i)

-----------------------------------------------------------------------------
Init ==
    /\ task = [i \in Tasks |-> Idle]
    /\ isInserting = FALSE
    /\ textarea = << >>
    /\ insertBtn = [disabled |-> FALSE, label |-> "Insert to note"]
    /\ notices = ""
    /\ activeNote = NoItem
    /\ noteBlocks = 0
    /\ prefs = [llmKey |-> << >>, openaiApiKey |-> << >>, openaiSystemPrompt |-> ""]
    /\ selection = << >>
    /\ dlgKey = << >>
    /\ dlgPrompt = << >>
    /\ dlgOutput = ""
    /\ ignored = 0
    /\ chatNote = NoChatNote
    /\ win = MainWindow

\* one caller, one call at a time
NextApi ==
    \E i \in {1} :
        \/ ApiCallOpenAI(i)
        \/ ApiCallOpenAIDraft(i)
        \/ ApiCallOpenAIWithFiles(i)
        \/ FetchResolves(i)
        \/ ApiFetchFails(i)
        \/ ApiBodySettles(i)
        \/ ApiReturn(i)

\* the transport under direct calls
SpecApi == Init /\ [][NextApi]_vars

NextResolver ==
    \E i \in {1} :
        \/ ResolverCall(i)
        \/ ResolverReturn(i)
        \/ FindCall(i)
        \/ ReadCall(i)
        \/ HelperReturn(i)

\* the resolver under direct calls
SpecResolver == Init /\ [][NextResolver]_vars

NextBase64 ==
    \E i \in {1} :
        \/ NormalizeCall(i)
        \/ NormalizeAgain(i)
        \/ NormalizeReturn(i)

\* normalizeBase64 under direct calls
SpecBase64 == Init /\ [][NextBase64]_vars

NextNormalizer ==
    \E i \in {1} :
        \/ LlmNormalizeCall(i)
        \/ LlmNormalizeReturn(i)

\* normalizeLLMResponse under direct calls
SpecNormalizer == Init /\ [][NextNormalizer]_vars

NextComposer ==
    \/ TypePrompt
    \/ SetPrefs
    \/ UserSelects
    \/ \E i \in Tasks :
          \/ InsertClick(i)
          \/ InsertWakes(i)
          \/ InsertResolved(i)
          \/ InsertFetchFails(i)
          \/ InsertResponds(i)
          \/ InsertSaved(i)
          \/ InsertSaveFails(i)

\* the composer
SpecComposer == Init /\ [][NextComposer]_vars

NextDialog ==
    \/ TypeKey
    \/ TypeDialogPrompt
    \/ UserSelects
    \/ \E i \in Tasks :
          \/ SendClick(i)
          \/ SendPdfClick(i)
          \/ SendPdfResolved(i)
          \/ DialogFetchFails(i)
          \/ DialogResponds(i)

\* the dialog
SpecDialog == Init /\ [][NextDialog]_vars

\* a step of a running onInsertClick
InsertStep(i) ==
    \/ InsertWakes(i)
    \/ InsertResolved(i)
    \/ InsertFetchFails(i)
    \/ InsertResponds(i)
    \/ InsertSaved(i)
    \/ InsertSaveFails(i)

\* a prompt typed in the composer, a key saved in the preferences
InitInsert ==
    /\ task = [i \in Tasks |-> Idle]
    /\ isInserting = FALSE
    /\ textarea = << "h" >>
    /\ insertBtn = restoreBtn
    /\ notices = ""
    /\ activeNote = NoItem
    /\ noteBlocks = 0
    /\ prefs = [llmKey |-> PlainKey, openaiApiKey |-> << >>, openaiSystemPrompt |-> ""]
    /\ selection = << >>
    /\ dlgKey = << >>
    /\ dlgPrompt = << >>
    /\ dlgOutput = ""
    /\ ignored = 0
    /\ chatNote = NoChatNote
    /\ win = MainWindow

NextInsert ==
    \/ UserSelects
    \/ \E i \in Tasks : InsertClick(i) \/ InsertStep(i)

\* the composer when every awaited operation settles: the timer fires, the
\* host and the network answer or fail
FairComposer ==
    /\ InitInsert
    /\ [][NextInsert]_vars
    /\ WF_vars(\E i \in Tasks : InsertStep(i))

\* a prompt typed in the composer and in the dialog, a key saved in the preferences
InitFiles ==
    /\ task = [i \in Tasks |-> Idle]
    /\ isInserting = FALSE
    /\ textarea = << "h" >>
    /\ insertBtn = restoreBtn
    /\ notices = ""
    /\ activeNote = NoItem
    /\ noteBlocks = 0
    /\ prefs = [llmKey |-> PlainKey, openaiApiKey |-> << >>, openaiSystemPrompt |-> ""]
    /\ selection = << >>
    /\ dlgKey = << >>
    /\ dlgPrompt = << "h" >>
    /\ dlgOutput = ""
    /\ ignored = 0
    /\ chatNote = NoChatNote
    /\ win = MainWindow

NextFiles ==
    \/ UserSelects
    \/ \E i \in {1} :
          \/ InsertClick(i)
          \/ InsertStep(i)
          \/ SendPdfClick(i)
          \/ SendPdfResolved(i)
          \/ DialogFetchFails(i)
          \/ DialogResponds(i)

\* the two send actions that ask the resolver for files, one invocation at a time
SpecFiles == InitFiles /\ [][NextFiles]_vars

NextKeys ==
    \/ SetPrefs
    \/ UserSelects
    \/ \E i \in {1} : InsertClick(i) \/ InsertStep(i)

\* the composer with a prompt typed, under every choice of the saved keys
SpecKeys == InitInsert /\ [][NextKeys]_vars

\* a prompt left in the textarea and keys saved in the preferences, any of them
InitPreflight ==
    /\ task = [i \in Tasks |-> Idle]
    /\ isInserting = FALSE
    /\ textarea \in Typed
    /\ insertBtn = restoreBtn
    /\ notices = ""
    /\ activeNote = NoItem
    /\ noteBlocks = 0
    /\ prefs \in PrefChoices
    /\ selection = << >>
    /\ dlgKey = << >>
    /\ dlgPrompt = << >>
    /\ dlgOutput = ""
    /\ ignored = 0
    /\ chatNote = NoChatNote
    /\ win = MainWindow

NextPreflight ==
    \/ UserSelects
    \/ \E i \in {1} : InsertClick(i) \/ InsertStep(i)

\* the composer under every prompt, selection and choice of keys, one
\* invocation at a time
SpecPreflight == InitPreflight /\ [][NextPreflight]_vars

\* the dialog open with any key and prompt typed and any key saved before
InitSend ==
    /\ task = [i \in Tasks |-> Idle]
    /\ isInserting = FALSE
    /\ textarea = << >>
    /\ insertBtn = restoreBtn
    /\ notices = ""
    /\ activeNote = NoItem
    /\ noteBlocks = 0
    /\ prefs \in PrefChoices
    /\ selection = << >>
    /\ dlgKey \in KeyInputs
    /\ dlgPrompt \in Typed
    /\ dlgOutput = ""
    /\ ignored = 0
    /\ chatNote = NoChatNote
    /\ win = MainWindow

NextSend ==
    \/ UserSelects
    \/ \E i \in {1} :
          \/ SendClick(i)
          \/ SendPdfClick(i)
          \/ SendPdfResolved(i)
          \/ DialogFetchFails(i)
          \/ DialogResponds(i)

\* the two send actions of the dialog, one invocation at a time
SpecSend == InitSend /\ [][NextSend]_vars

\* a window the plugin has not touched yet
InitWindow ==
    /\ task = [i \in Tasks |-> Idle]
    /\ isInserting = FALSE
    /\ textarea = << >>
    /\ insertBtn = restoreBtn
    /\ notices = ""
    /\ activeNote = NoItem
    /\ noteBlocks = 0
    /\ prefs = [llmKey |-> << >>, openaiApiKey |-> << >>, openaiSystemPrompt |-> ""]
    /\ selection = << >>
    /\ dlgKey = << >>
    /\ dlgPrompt = << >>
    /\ dlgOutput = ""
    /\ ignored = 0
    /\ chatNote = NoChatNote
    /\ win \in FreshWindows

NextWindow ==
    \/ OnMainWindowLoad
    \/ OnMainWindowUnload
    \/ RegisterChatNoteToolbarButton
    \/ UnregisterChatNoteToolbarButton

\* the hooks on one window, called in any order
SpecWindow == InitWindow /\ [][NextWindow]_vars

\* the window after startup, under either revision of chatNoteToolbar.ts
InitToolbar ==
    /\ task = [i \in Tasks |-> Idle]
    /\ isInserting = FALSE
    /\ textarea = << >>
    /\ insertBtn = restoreBtn
    /\ notices = ""
    /\ activeNote = NoItem
    /\ noteBlocks = 0
    /\ prefs = [llmKey |-> << >>, openaiApiKey |-> << >>, openaiSystemPrompt |-> ""]
    /\ selection = << >>
    /\ dlgKey = << >>
    /\ dlgPrompt = << >>
    /\ dlgOutput = ""
    /\ ignored = 0
    /\ chatNote = NoChatNote
    /\ win \in { [MainWindow EXCEPT !.version = v] : v \in {2, 3} }

NextToolbar ==
    \/ UserSelects
    \/ \E i \in Tasks : ChatNoteClick(i) \/ ChatNoteStep(i)

\* clicks on the chat-note button, when every awaited host call settles
FairToolbar ==
    /\ InitToolbar
    /\ [][NextToolbar]_vars
    /\ WF_vars(\E i \in Tasks : ChatNoteStep(i))

\* the chat note before the first exchange is appended
InitNote ==
    /\ task = [i \in Tasks |-> Idle]
    /\ isInserting = FALSE
    /\ textarea = << >>
    /\ insertBtn = restoreBtn
    /\ notices = ""
    /\ activeNote = NoItem
    /\ noteBlocks = 0
    /\ prefs = [llmKey |-> << >>, openaiApiKey |-> << >>, openaiSystemPrompt |-> ""]
    /\ selection = << >>
    /\ dlgKey = << >>
    /\ dlgPrompt = << >>
    /\ dlgOutput = ""
    /\ ignored = 0
    /\ chatNote \in {[NoChatNote EXCEPT !.html = b, !.saved = b, !.base = b] : b \in NoteBodies}
    /\ win = MainWindow

NextNote == \E i \in {1} : AppendCall(i) \/ AppendSaved(i) \/ AppendSaveFails(i)

\* a caller of appendChatExchange, one call at a time
SpecNote == InitNote /\ [][NextNote]_vars

-----------------------------------------------------------------------------
(* Properties of the transport, checked under SpecApi *)

\* the message the provider put in its error body, NoErr's when there is none
ProviderSaid(rawText) ==
    LET parsed == ParseOrEmpty(rawText)
    IN  IF parsed.ok /\ Get(Get(parsed.v, "error"), "message").t = "string"
        THEN Get(Get(parsed.v, "error"), "message").s
        ELSE ""

\* C1: when the provider answers a non-2xx status with a JSON body carrying
\* error.message, the send fails with an error whose message is exactly that
\* message.
C1_ProviderMessageSurfaced ==
    \A i \in Tasks :
        ( /\ task[i].kind = "api"
          /\ task[i].pc = "callDone"
          /\ task[i].res # NoRes
          /\ ~task[i].res.ok
          /\ ProviderSaid(task[i].raw) # "" )
        => /\ task[i].out.tag = "throw"
           /\ task[i].out.err.message = ProviderSaid(task[i].raw)

\* C2: callOpenAI and callOpenAIWithFiles fail before any network call, with
\* 'Missing OpenAI API key' when the key is empty and otherwise with 'Prompt is
\* empty' when the trimmed text is empty; the key is tested first.
C2_FailsBeforeNetwork ==
    \A i \in Tasks :
        task[i].kind = "api" =>
            /\ task[i].key = << >> =>
                   /\ task[i].pc = "callDone"
                   /\ task[i].posts = 0
                   /\ task[i].out = Throw(NewError("Missing OpenAI API key"))
            /\ (task[i].key # << >> /\ Trim(task[i].text) = << >>) =>
                   /\ task[i].pc = "callDone"
                   /\ task[i].posts = 0
                   /\ task[i].out = Throw(NewError("Prompt is empty"))

\* a call with neither key nor prompt has failed on the key, with no POST
C2_Witness ==
    \E i \in Tasks :
        /\ task[i].kind = "api"
        /\ task[i].fn = "callOpenAI"
        /\ task[i].key = << >>
        /\ Trim(task[i].text) = << >>
        /\ task[i].pc = "callDone"
        /\ task[i].posts = 0
        /\ task[i].out.err.message = "Missing OpenAI API key"

\* C3: a call issues at most one HTTP POST; a network failure of fetch is
\* rethrown to the caller as the same error object and the request is not
\* posted again.
C3_OnePostNoRetry ==
    \A i \in Tasks :
        task[i].kind = "api" =>
            /\ task[i].posts <= 1
            /\ (task[i].posts = 1 /\ task[i].pc = "callDone" /\ task[i].res = NoRes) =>
                   /\ task[i].out.tag = "throw"
                   /\ task[i].out.err \in NetErrors

\* a call whose fetch failed: one POST, the network error in the caller's hands
C3_Witness ==
    \E i \in Tasks, e \in NetErrors :
        /\ task[i].kind = "api"
        /\ task[i].pc = "callDone"
        /\ task[i].posts = 1
        /\ task[i].res = NoRes
        /\ task[i].out = Throw(e)

-----------------------------------------------------------------------------
(* Properties of the resolver, checked under SpecResolver *)

\* C8: loadSelectedPdfAsInputFile and loadSelectedPdfFiles never throw,
\* whatever host call fails, the accessors of the selected item included.
C8_ResolverNeverThrows ==
    \A i \in Tasks : task[i].kind = "resolver" => task[i].load.tag # "throw"

RECURSIVE PdfsOf(_)
\* the PDF attachments of a list, in its order
PdfsOf(ids) ==
    IF ids = << >> THEN << >>
    ELSE IF isPdfMime(Item(Head(ids)).mime) THEN << Head(ids) >> \o PdfsOf(Tail(ids))
    ELSE PdfsOf(Tail(ids))

\* the candidate PDF attachments of an item: itself, or those of its top-level item
Candidates(id) ==
    LET it == Item(id)
    IN  IF it.isAttachment /\ isPdfMime(it.mime) THEN << id >>
        ELSE IF it.top = NoItem THEN << >>
        ELSE PdfsOf(Item(it.top).atts) \o PdfsOf(KeepAttachments(Item(it.top).kids))

\* the attachment yields a payload
Readable(att) ==
    /\ readAttachmentToBase64(att).tag = "ok"
    /\ readAttachmentToBase64(att).base64 # << >>

\* the item the resolver works on
ResolvedItem(arg) == getSelectedItemsOrReaderItem(arg.sel, arg.reader, arg.paneFails)

\* C9 as stated: when the chosen PDF attachment cannot be read the resolver goes
\* on to another candidate of the same item, and yields no payload only when
\* every candidate has failed.
C9_TriesEveryCandidate ==
    \A i \in Tasks :
        ( /\ task[i].kind = "resolver"
          /\ task[i].load.tag = "null"
          /\ ResolvedItem(task[i].arg) # << >> )
        => \A k \in 1 .. Len(Candidates(ResolvedItem(task[i].arg)[1])) :
               ~Readable(Candidates(ResolvedItem(task[i].arg)[1])[k])

\* C9 amended: the resolver reads the first PDF candidate only; a payload comes
\* from that one, and when that one cannot be read there is no payload,
\* whatever the other candidates hold.
C9_FirstCandidateOnly ==
    \A i \in Tasks :
        ( /\ task[i].kind = "resolver"
          /\ ResolvedItem(task[i].arg) # << >>
          /\ ~DescribeThrows(ResolvedItem(task[i].arg)[1]) )
        => LET cands == Candidates(ResolvedItem(task[i].arg)[1])
           IN  /\ task[i].load.tag = "file" => (cands # << >> /\ task[i].load.att = cands[1])
               /\ (cands # << >> /\ ~Readable(cands[1])) => task[i].load.tag # "file"

\* an item whose first PDF cannot be read and whose second can: no payload
C9_Witness ==
    \E i \in Tasks :
        /\ task[i].kind = "resolver"
        /\ task[i].arg.sel = << PaperA >>
        /\ ~task[i].arg.paneFails
        /\ ~Readable(Candidates(PaperA)[1])
        /\ \E k \in 2 .. Len(Candidates(PaperA)) : Readable(Candidates(PaperA)[k])
        /\ task[i].load.tag = "null"

-----------------------------------------------------------------------------
(* Properties of the send actions *)

\* the invocations with an LLM request in flight
Outstanding ==
    { i \in Tasks : task[i].kind \in {"insert", "send", "sendPdf"} /\ task[i].pc = "fetch" }

\* C4: at most one LLM request is outstanding at any time across the UI; a
\* click on a send action while a request is in flight starts no second one.
\* Checked under SpecDialog.
C4_OneRequestOutstanding == Cardinality(Outstanding) <= 1

\* the invocations of onInsertClick past the guard
InsertBodies == { i \in Tasks : task[i].kind = "insert" }

\* C5: while one onInsertClick is in progress a re-entrant call returns at
\* once, so that at most one body of onInsertClick is executing at any time.
\* Checked under SpecComposer.
C5_OneInsertBody ==
    /\ Cardinality(InsertBodies) <= 1
    /\ isInserting <=> InsertBodies # {}

\* a click arrived while an invocation was in flight, and was ignored
C5_Witness ==
    /\ ignored > 0
    /\ isInserting
    /\ Cardinality(InsertBodies) = 1

\* C6: every onInsertClick that set isInserting eventually resets it to false
\* and re-enables the button with the label 'Insert to note', on every exit
\* path.  Checked under FairComposer.
C6_FlagEventuallyReset ==
    isInserting ~> (~isInserting /\ insertBtn = restoreBtn)

\* an invocation that set the flag has left through the catch block
C6_Witness ==
    /\ notices = "Failed to insert (see logs)."
    /\ ~isInserting
    /\ insertBtn = restoreBtn
    /\ noteBlocks > 0

StartsWith(s, prefix) ==
    /\ Len(s) >= Len(prefix)
    /\ SubSeq(s, 1, Len(prefix)) = prefix

\* 'Error: <details>'
IsErrorMessage(s) == StartsWith(s, "Error: ") /\ Len(s) > Len("Error: ")

\* a step in which a dialog send action finishes otherwise than with an answer
DialogFails(i) ==
    \/ DialogFetchFails(i)
    \/ /\ task[i].kind \in {"send", "sendPdf"}
       /\ task[i].pc = "fetch"
       /\ \E r \in ResponseHeads, rawText \in AnswersTo(task[i]) :
              /\ ~r.ok
              /\ DialogAfterCall(i, Classify(OnFetchResolve(task[i], r), rawText))
    \/ /\ SendPdfResolved(i)
       /\ task'[i].kind = "idle"

\* C7: on every failure path of Send and Send (PDF), once the action has
\* finished the output area shows 'Error: <details>', never a blank or a
\* pending placeholder.  Checked under SpecDialog.
C7_FailureShowsError ==
    [][ \A i \in Tasks : DialogFails(i) => IsErrorMessage(dlgOutput') ]_vars

\* the resolver gave no file
NoFileLoaded(l) == l.tag = "throw" \/ (l.tag = "files" /\ l.files = << >>)

-----------------------------------------------------------------------------
(* findFirstPdfAttachment, the payload and normalizeBase64 *)

\* a MIME type that equals application/pdf when case is ignored
IsPdfType(mime) == mime \in {"application/pdf", "Application/PDF", "APPLICATION/PDF"}

\* the entries of a list that are PDF attachments, by position
PdfPositions(ids) ==
    { k \in 1 .. Len(ids) : Item(ids[k]).isAttachment /\ IsPdfType(Item(ids[k]).mime) }

FirstOf(ids, positions) == ids[CHOOSE k \in positions : \A j \in positions : k <= j]

\* the priority order: the item itself, else nothing when there is no
\* container or the container is an attachment, else the first PDF of the
\* attachment list, else the first PDF among the children, else nothing
PriorityPdf(id) ==
    LET it == Item(id)
        container == Item(it.top)
    IN  IF it.isAttachment /\ IsPdfType(it.mime) THEN id
        ELSE IF ~container.exists \/ container.isAttachment THEN NoItem
        ELSE IF PdfPositions(container.atts) # {}
        THEN FirstOf(container.atts, PdfPositions(container.atts))
        ELSE IF PdfPositions(container.kids) # {}
        THEN FirstOf(container.kids, PdfPositions(container.kids))
        ELSE NoItem

\* C11: findFirstPdfAttachment follows the priority order, first success wins:
\* the item itself when it is a PDF attachment (MIME compared without case),
\* null when the container is missing or an attachment, the first PDF of the
\* container's attachment list, then the first PDF among its attachment
\* children, else null.  Checked under SpecResolver.
C11_PriorityOrder ==
    \A i \in Tasks :
        task[i].kind = "find" => task[i].load.att = PriorityPdf(task[i].note)

\* a container with attachments [text/plain, application/pdf] yields the PDF
C11_Witness ==
    \E i \in Tasks :
        /\ task[i].kind = "find"
        /\ task[i].note = PaperA
        /\ Item(PaperA).atts[1] = NotesTxt
        /\ task[i].load.att = BrokenPdf

\* the Base64Payload invariant
IsBase64Payload(b64) ==
    /\ \A k \in 1 .. Len(b64) : b64[k] \in B64Alphabet \cup {"="}
    /\ Len(b64) % 4 = 0
    /\ AtobOk(b64)

\* C12: every non-null payload of readAttachmentToBase64, and the file_data of
\* loadSelectedPdfAsInputFile, by the data-URI path or the file path, holds
\* only characters of [A-Za-z0-9+/=], has a length that is a multiple of 4 and
\* passes the decode check.  Checked under SpecResolver.
C12_PayloadIsBase64 ==
    \A i \in Tasks :
        /\ (task[i].kind = "read" /\ task[i].payload.tag = "ok")
              => IsBase64Payload(task[i].payload.base64)
        /\ (task[i].kind = "resolver" /\ task[i].load.tag = "file")
              => (task[i].load.file.prefix = "" /\ IsBase64Payload(task[i].load.file.b64))

\* a file read from disk with a line break in it and no padding
C12_Witness ==
    \E i \in Tasks :
        /\ task[i].kind = "read"
        /\ task[i].note = GoodPdf
        /\ task[i].payload.via = "path"
        /\ task[i].payload.base64 = << "J", "V", "B", "E", "R", "g", "=", "=" >>

\* C13: normalizeBase64 is idempotent and total: normalising a normalised text
\* changes nothing, and the result holds no whitespace and has a length that
\* is a multiple of 4.  Checked under SpecBase64.
C13_NormalizeIdempotent ==
    \A i \in Tasks :
        task[i].kind = "normalize" =>
            /\ \A k \in 1 .. Len(task[i].payload.base64) : ~IsSpace(task[i].payload.base64[k])
            /\ Len(task[i].payload.base64) % 4 = 0
            /\ task[i].payload.base64 = StripSpace(task[i].text)
                   \o Repeat("=", (4 - (Len(StripSpace(task[i].text)) % 4)) % 4)

\* a text with whitespace inside and two characters short, normalised twice
C13_Witness ==
    \E i \in Tasks :
        /\ task[i].kind = "normalize"
        /\ task[i].pc = "twice"
        /\ task[i].text = << "A", " ", "A" >>
        /\ task[i].payload.base64 = << "A", "A", "=", "=" >>

-----------------------------------------------------------------------------
(* normalizeLLMResponse *)

\* the shape probes in the order the claim gives them
ProbeOrder ==
    << "responses.output_text", "responses.output_text[]",
       "responses.output.assistant.content.text", "responses.output.content.text",
       "chat.choices.message", "chat.choices.text", "json-stringify" >>

ContentParts(v) == IF Get(v, "content").t = "array" THEN Get(v, "content").a ELSE << >>

\* the text a shape holds in an object, "" when the object has not that shape
ShapeText(obj, tag) ==
    CASE tag = "responses.output_text" ->
           IF Get(obj, "output_text").t = "string" THEN Get(obj, "output_text").s ELSE ""
      [] tag = "responses.output_text[]" ->
           IF Get(obj, "output_text").t = "array"
           THEN JoinStrings(NonEmptyStrings(Get(obj, "output_text").a), "\n\n") ELSE ""
      [] tag = "responses.output.assistant.content.text" ->
           IF Get(obj, "output").t = "array"
           THEN joinTextParts(ContentParts(findLastAssistantMessage(Get(obj, "output"))))
           ELSE ""
      [] tag = "responses.output.content.text" ->
           IF Get(obj, "output").t = "array"
           THEN joinTextParts(ContentParts(Elem(Get(obj, "output"), 1))) ELSE ""
      [] tag = "chat.choices.message" ->
           StringOf(Get(Get(Elem(Get(obj, "choices"), 1), "message"), "content"))
      [] tag = "chat.choices.text" -> StringOf(Get(Elem(Get(obj, "choices"), 1), "text"))
      [] OTHER -> JSONStringify(obj)

\* the object matches the shape: a text that is not blank, a truthy chat
\* content, and the dump for every object
ShapeMatches(obj, tag) ==
    CASE tag = "chat.choices.message" ->
           Truthy(Get(Get(Elem(Get(obj, "choices"), 1), "message"), "content"))
      [] tag = "chat.choices.text" -> Truthy(Get(Elem(Get(obj, "choices"), 1), "text"))
      [] tag = "json-stringify" -> TRUE
      [] OTHER -> StrTrim(ShapeText(obj, tag)) # ""

EarliestMatch(obj) ==
    ProbeOrder[CHOOSE k \in 1 .. Len(ProbeOrder) :
                   /\ ShapeMatches(obj, ProbeOrder[k])
                   /\ \A j \in 1 .. k - 1 : ~ShapeMatches(obj, ProbeOrder[j])]

\* C14: on an object the shape probes apply in a fixed order and the first
\* match wins: output_text string, output_text array, output[] (last assistant
\* content, then output[0].content), choices[0].message.content,
\* choices[0].text, then the pretty-printed JSON dump; text and source are
\* those of the earliest matching probe.  Checked under SpecNormalizer.
C14_FirstMatchWins ==
    \A i \in Tasks :
        (task[i].kind = "llmNormalize" /\ IsObjectType(task[i].out.val)) =>
            /\ task[i].norm.source = EarliestMatch(task[i].out.val)
            /\ task[i].norm.text = ShapeText(task[i].out.val, EarliestMatch(task[i].out.val))
            /\ task[i].out.val = JObj([foo |-> JNum(1)])
                  => task[i].norm.text = "{\n  \"foo\": 1\n}"

\* an object with an output_text string, an assistant message and a chat choice
C14_Witness ==
    \E i \in Tasks :
        /\ task[i].kind = "llmNormalize"
        /\ task[i].out.val =
              JObj([output_text |-> JStr("hello"),
                    output |-> JArr(<< Message("assistant", << TextPart("A1") >>) >>),
                    choices |-> JArr(<< JObj([message |-> JObj([content |-> JStr("x")])]) >>)])
        /\ task[i].norm = Normalized("hello", "responses.output_text")

\* C15: normalizeLLMResponse never throws: for every string and every JSON
\* value, strings that look like JSON and do not parse included, it returns a
\* text that is a string and one of the nine source tags.
\* Checked under SpecNormalizer.
C15_NeverThrows ==
    \A i \in Tasks :
        task[i].kind = "llmNormalize" =>
            /\ ~task[i].norm.threw
            /\ task[i].norm.text \in STRING
            /\ task[i].norm.source \in Sources

\* a string that looks like JSON and does not parse comes back as a string
C15_Witness ==
    \E i \in Tasks :
        /\ task[i].kind = "llmNormalize"
        /\ task[i].out.val = JStr("{not json}")
        /\ task[i].norm = Normalized("{not json}", "string")

\* C16 as stated: for every object whose output_text is a non-empty string, of
\* any content, whitespace only included, the text is exactly that string and
\* the source is responses.output_text.
C16_AnyNonEmptyOutputText ==
    \A i \in Tasks :
        ( /\ task[i].kind = "llmNormalize"
          /\ task[i].out.val.t = "object"
          /\ Get(task[i].out.val, "output_text").t = "string"
          /\ Get(task[i].out.val, "output_text").s # "" )
        => task[i].norm = Normalized(Get(task[i].out.val, "output_text").s,
                                     "responses.output_text")

HasNonSpace(str) == \E k \in 1 .. Len(str) : SubSeq(str, k, k) \notin {" ", "\n", "\t", "\r"}

\* C16 amended: for every object whose output_text is a string with a
\* character that is not whitespace, the text is exactly that string, edges
\* untrimmed, and the source is responses.output_text; a string of whitespace
\* only is passed over and never gets that source.  Checked under SpecNormalizer.
C16_NonBlankOutputText ==
    \A i \in Tasks :
        ( /\ task[i].kind = "llmNormalize"
          /\ task[i].out.val.t = "object"
          /\ Get(task[i].out.val, "output_text").t = "string" )
        => IF HasNonSpace(Get(task[i].out.val, "output_text").s)
           THEN task[i].norm = Normalized(Get(task[i].out.val, "output_text").s,
                                          "responses.output_text")
           ELSE task[i].norm.source # "responses.output_text"

\* an output_text with whitespace at its edges is returned as it is
C16_Witness ==
    \E i \in Tasks :
        /\ task[i].kind = "llmNormalize"
        /\ task[i].out.val.t = "object"
        /\ Get(task[i].out.val, "output_text") = JStr(" hello\n")
        /\ task[i].norm = Normalized(" hello\n", "responses.output_text")

\* the string, trimmed, holds JSON that parses
ParsesThrough(str) == LooksLikeJson(StrTrim(str)) /\ JSONParse(StrTrim(str)).ok

\* C17 as stated: a string that looks like JSON and parses gives the result of
\* the parsed value; any other string is returned as it is with source string.
C17_StringAsIs ==
    \A i \in Tasks :
        (task[i].kind = "llmNormalize" /\ task[i].out.val.t = "string") =>
            IF ParsesThrough(task[i].out.val.s)
            THEN task[i].norm = normalizeLLMResponse(JSONParse(StrTrim(task[i].out.val.s)).v)
            ELSE task[i].norm = Normalized(task[i].out.val.s, "string")

\* C17 amended: a string that, once trimmed, looks like JSON and parses gives
\* the result of the parsed value; any other string is returned trimmed, with
\* source string.  Checked under SpecNormalizer.
C17_StringTrimmed ==
    \A i \in Tasks :
        (task[i].kind = "llmNormalize" /\ task[i].out.val.t = "string") =>
            /\ IF ParsesThrough(task[i].out.val.s)
               THEN task[i].norm = normalizeLLMResponse(JSONParse(StrTrim(task[i].out.val.s)).v)
               ELSE task[i].norm = Normalized(StrTrim(task[i].out.val.s), "string")
            /\ task[i].out.val.s = BodyAnswer
                  => task[i].norm = Normalized("hi", "responses.output_text")

\* JSON wrapped in a string with whitespace around it parses through
C17_Witness ==
    \E i \in Tasks :
        /\ task[i].kind = "llmNormalize"
        /\ task[i].out.val = JStr(" " \o BodyAnswer \o "\n")
        /\ task[i].norm = Normalized("hi", "responses.output_text")

\* the default string coercion of the values that are neither string nor object
DefaultCoercion(v) ==
    CASE v = JNull -> "null"
      [] v = JUndef -> "undefined"
      [] v = JBool(TRUE) -> "true"
      [] v = JBool(FALSE) -> "false"
      [] v = JNum(0) -> "0"
      [] v = JNum(42) -> "42"

IsPrimitive(v) == v.t \in {"null", "undefined", "number", "boolean"}

\* C18 as stated: null, undefined, a number or a boolean gives its default
\* string coercion ("null" for null, "0" for 0, "false" for false) with source
\* unknown.
C18_DefaultCoercion ==
    \A i \in Tasks :
        (task[i].kind = "llmNormalize" /\ IsPrimitive(task[i].out.val)) =>
            task[i].norm = Normalized(DefaultCoercion(task[i].out.val), "unknown")

\* C18 amended: a number or a boolean gives its default string coercion, null
\* and undefined give the empty string; the source is unknown.
\* Checked under SpecNormalizer.
C18_CoercionOrEmpty ==
    \A i \in Tasks :
        (task[i].kind = "llmNormalize" /\ IsPrimitive(task[i].out.val)) =>
            task[i].norm =
                Normalized(IF task[i].out.val.t \in {"null", "undefined"} THEN ""
                           ELSE DefaultCoercion(task[i].out.val), "unknown")

\* null gives the empty string
C18_Witness ==
    \E i \in Tasks :
        /\ task[i].kind = "llmNormalize"
        /\ task[i].out.val = JNull
        /\ task[i].norm = Normalized("", "unknown")


-----------------------------------------------------------------------------
(* C19: the API key never appears in the diagnostic output *)

\* the text sub occurs in the text s
Contains(s, sub) ==
    /\ Len(sub) > 0
    /\ \E k \in 1 .. (Len(s) - Len(sub) + 1) : SubSeq(s, k, k + Len(sub) - 1) = sub

\* the two forms a key is logged in
RedactedForms == {"sk-***REDACTED***", "***REDACTED***"}

\* a call of the logger with the redacted form of a key blotted out
MaskedCall(call) ==
    [call EXCEPT !.data =
        [k \in 1 .. Len(call.data) |->
            IF Replaced(call.data[k][2]).t = "string"
               /\ Replaced(call.data[k][2]).s \in RedactedForms
            THEN Field(call.data[k][1], JStr("(redacted)"))
            ELSE Field(call.data[k][1], Replaced(call.data[k][2]))]]

\* the lines of an invocation, the redacted forms blotted out
MaskedLines(t) == [k \in 1 .. Len(t.logs) |-> MaskedCall(t.logs[k])]

\* no line the invocation has written holds its key
KeyNotInLines(t) ==
    \A k \in 1 .. Len(t.logs) : ~Contains(LineText(t.logs[k]), TextOf(t.key))

\* the keys the runs of an invocation are compared on
RunKeys == {PlainKey, SkKey, << "s", "k", "-", "2" >>, << "K", "8" >>}

\* onInsertClick of the invocation t, run again with another key, up to the
\* await inside callOpenAIWithFiles
InsertRunWith(t, key) ==
    callOpenAIWithFiles(KeyMetaLogged([Idle EXCEPT !.kind = "insert", !.note = t.note,
                                                   !.text = t.text, !.key = key,
                                                   !.sys = t.sys],
                                      key),
                        t.text, t.files, key, "", t.sys)

\* the same run once its call has settled the way the call of t has: rejected
\* before any request, failed in fetch, or answered with t.res and t.raw
SettledAs(run, t) ==
    LlmLogged(IF run.pc = "callDone" THEN run
              ELSE IF t.res = NoRes THEN OnFetchThrow(run, t.out.err)
              ELSE Classify(OnFetchResolve(run, t.res), t.raw))

\* two runs wrote the same lines, but for the redacted form of the key
SameLines(a, b) == MaskedLines(a) = MaskedLines(b)

\* the invocation i has a key that is not blank
HasKey(i) == Trim(task[i].key) # << >>

\* the invocation t, run again with its own key, writes the lines t wrote, and
\* run again with any other key it writes the same lines but for the redacted
\* form of the key
SameWithAnyKey(t) ==
    \E own \in { IF t.pc = "fetch" THEN InsertRunWith(t, t.key)
                 ELSE SettledAs(InsertRunWith(t, t.key), t) } :
        /\ own.logs = t.logs
        /\ \A key \in RunKeys :
               \E other \in { IF t.pc = "fetch" THEN InsertRunWith(t, key)
                              ELSE SettledAs(InsertRunWith(t, key), t) } :
                   SameLines(own, other)

\* C19: no line an invocation of the composer hands to log, warn or error holds
\* the API key, and two runs of an invocation that differ only in the key write
\* the same lines but for the redacted form of the key, both while the request
\* is in flight and once it has settled
C19_KeyNeverLogged ==
    \A i \in Tasks :
        HasKey(i) =>
            /\ KeyNotInLines(task[i])
            /\ (task[i].kind = "insert" /\ task[i].pc \in {"fetch", "saving"})
                   => SameWithAnyKey(task[i])


-----------------------------------------------------------------------------
(* C20: the blocks of the input list *)

\* the requests callOpenAIWithFiles built for a caller of the exported function
BuiltWithFiles(i) ==
    /\ task[i].kind = "api"
    /\ task[i].fn = "callOpenAIWithFiles"
    /\ task[i].req # NoReq

\* the number of blocks of the list that have this role
RoleCount(input, role) == Cardinality({k \in 1 .. Len(input) : input[k].role = role})

\* the list ends with a user block and has no other user block
EndsWithOneUser(input) ==
    /\ input # << >>
    /\ input[Len(input)].role = "user"
    /\ RoleCount(input, "user") = 1

\* a system block stands before the last block
SystemPrecedes(input) == \E k \in 1 .. Len(input) - 1 : input[k].role = "system"

\* C20 as stated: every request built ends with exactly one user block, and a
\* system block precedes it if and only if the supplied systemPrompt is
\* non-empty after trimming
C20_SystemIffSupplied ==
    \A i \in Tasks :
        BuiltWithFiles(i) =>
            /\ EndsWithOneUser(task[i].req.input)
            /\ SystemPrecedes(task[i].req.input) <=> StrTrim(task[i].sys) # ""

\* C20 amended: every request built ends with exactly one user block; an empty
\* or absent systemPrompt is replaced with the default prompt, so a system
\* block precedes the user block unless the supplied systemPrompt is non-empty
\* and blank, and the block holds the supplied text or else the default
C20_SystemIffEffective ==
    \A i \in Tasks :
        BuiltWithFiles(i) =>
            /\ EndsWithOneUser(task[i].req.input)
            /\ RoleCount(task[i].req.input, "system") <= 1
            /\ SystemPrecedes(task[i].req.input)
                   <=> (task[i].sys = "" \/ StrTrim(task[i].sys) # "")
            /\ SystemPrecedes(task[i].req.input) =>
                   task[i].req.input[1] =
                       Block("system",
                             << InputText(IF task[i].sys = "" THEN DEFAULT_SYSTEM_PROMPT
                                          ELSE task[i].sys) >>)

\* a request built from an empty systemPrompt: the default prompt stands in a
\* system block before the one user block
C20_Witness ==
    \E i \in Tasks :
        /\ BuiltWithFiles(i)
        /\ task[i].sys = ""
        /\ Len(task[i].req.input) = 2
        /\ task[i].req.input[1] =
               Block("system", << InputText(DEFAULT_SYSTEM_PROMPT) >>)
        /\ task[i].req.input[2].role = "user"

-----------------------------------------------------------------------------
(* C21: the chat note under appendChatExchange, checked under SpecNote *)

\* the number of places of s where sub stands
Count(s, sub) ==
    Cardinality({k \in 1 .. Len(s) - Len(sub) + 1 : SubSeq(s, k, k + Len(sub) - 1) = sub})

\* s ends with suffix
HasSuffix(s, suffix) ==
    Len(s) >= Len(suffix) /\ SubSeq(s, Len(s) - Len(suffix) + 1, Len(s)) = suffix

\* what stands in now after before and the line feed that parts it from the block
AppendedPart(before, now) ==
    SubSeq(now, Len(before) + (IF before = "" THEN 0 ELSE 1) + 1, Len(now))

\* now is before, unchanged, followed by one block: a line feed when before is
\* not empty, then a text that starts with the BEGIN marker, ends with the END
\* marker and a line feed, and holds no other marker
OneBlockAppended(before, now) ==
    /\ HasPrefix(now, IF before = "" THEN "" ELSE before \o "\n")
    /\ HasPrefix(AppendedPart(before, now), BEGIN_MARK)
    /\ HasSuffix(AppendedPart(before, now), END_MARK \o "\n")
    /\ Count(AppendedPart(before, now), BEGIN_MARK) = 1
    /\ Count(AppendedPart(before, now), END_MARK) = 1

\* no call of appendChatExchange is waiting for its save
NoAppendPending == \A i \in Tasks : task[i].kind # "append"

\* after n appends that succeeded one after another, the body they started from
\* is a prefix of the body, which holds n more BEGIN and n more END markers
MarkersAdded ==
    NoAppendPending =>
        /\ HasPrefix(chatNote.html, chatNote.base)
        /\ Count(chatNote.html, BEGIN_MARK) = Count(chatNote.base, BEGIN_MARK) + chatNote.appends
        /\ Count(chatNote.html, END_MARK) = Count(chatNote.base, END_MARK) + chatNote.appends

\* a call of appendChatExchange sets the body
BodySet == \E i \in Tasks : task[i].kind = "idle" /\ task'[i].kind = "append"

\* C21: each append sets the note body to the previous body unchanged followed
\* by exactly one new block between the BEGIN and END markers, and after any n
\* successful appends the earlier content is a prefix of the body and the body
\* holds exactly n more BEGIN and n more END markers, whatever the texts contain
C21_AppendOnly ==
    /\ []MarkersAdded
    /\ [][BodySet => OneBlockAppended(chatNote.html, chatNote'.html)]_vars

\* two appends have succeeded on a note that held a block, with texts that hold
\* the markers themselves
C21_Witness ==
    /\ NoAppendPending
    /\ chatNote.appends = 2
    /\ Count(chatNote.base, BEGIN_MARK) = 1
    /\ Count(chatNote.html, "&lt;!-- BEGIN: ai-chat-block --&gt;") > 0
    /\ Count(chatNote.html, BEGIN_MARK) = 3

-----------------------------------------------------------------------------
(* C22: the output array, checked under SpecNormalizer *)

RECURSIVE PartsFragments(_)
\* the fragments of a list of content nodes, in order: of each node its text
\* field, else its value field, else the fragments of its nested content,
\* else the node itself when it is a string
PartsFragments(parts) ==
    IF parts = << >> THEN << >>
    ELSE (IF Get(Head(parts), "text").t = "string" THEN << Get(Head(parts), "text").s >>
          ELSE IF Get(Head(parts), "value").t = "string" THEN << Get(Head(parts), "value").s >>
          ELSE IF Get(Head(parts), "content").t = "array"
          THEN PartsFragments(Get(Head(parts), "content").a)
          ELSE IF Head(parts).t = "string" THEN << Head(parts).s >>
          ELSE << >>)
         \o PartsFragments(Tail(parts))

\* every fragment, concatenated in order
Collected(parts) == JoinStrings(PartsFragments(parts), "")

\* the fragments that are not blank, concatenated in order
CollectedNotBlank(parts) ==
    JoinStrings(SelectSeq(PartsFragments(parts), LAMBDA f : StrTrim(f) # ""), "")

\* the last element whose role is assistant, the last element when there is none
LastAssistantOf(a) ==
    IF \E k \in 1 .. Len(a) : Get(a[k], "role") = JStr("assistant")
    THEN a[CHOOSE k \in 1 .. Len(a) :
               /\ Get(a[k], "role") = JStr("assistant")
               /\ \A j \in k + 1 .. Len(a) : Get(a[j], "role") # JStr("assistant")]
    ELSE a[Len(a)]

\* a call on an object with a non-empty output array in which no output_text
\* shape was found before
ReachesOutput(i) ==
    /\ task[i].kind = "llmNormalize"
    /\ IsObjectType(task[i].out.val)
    /\ HasOutput(task[i].out.val)
    /\ ~ShapeMatches(task[i].out.val, "responses.output_text")
    /\ ~ShapeMatches(task[i].out.val, "responses.output_text[]")

AssistantParts(i) == ContentParts(LastAssistantOf(Get(task[i].out.val, "output").a))
FirstParts(i) == ContentParts(Get(task[i].out.val, "output").a[1])

OutputTags == {"responses.output.assistant.content.text", "responses.output.content.text"}

\* C22 as stated: the text of every node of the last assistant content is
\* concatenated in order; if it is non-empty it is returned with the tag
\* responses.output.assistant.content.text, else the same collection on
\* output[0].content is returned with responses.output.content.text if non-empty
C22_CollectsEveryFragment ==
    \A i \in Tasks :
        ReachesOutput(i) =>
            IF Collected(AssistantParts(i)) # ""
            THEN task[i].norm = Normalized(Collected(AssistantParts(i)),
                                           "responses.output.assistant.content.text")
            ELSE Collected(FirstParts(i)) # "" =>
                     task[i].norm = Normalized(Collected(FirstParts(i)),
                                               "responses.output.content.text")

\* C22 amended: the fragments that are empty or blank are left out of the
\* collection; the fragments left of the last assistant content, concatenated
\* in order, are returned with responses.output.assistant.content.text if there
\* are any, else those of output[0].content with responses.output.content.text,
\* else the output array gives no text
C22_CollectsNotBlank ==
    \A i \in Tasks :
        ReachesOutput(i) =>
            IF CollectedNotBlank(AssistantParts(i)) # ""
            THEN task[i].norm = Normalized(CollectedNotBlank(AssistantParts(i)),
                                           "responses.output.assistant.content.text")
            ELSE IF CollectedNotBlank(FirstParts(i)) # ""
            THEN task[i].norm = Normalized(CollectedNotBlank(FirstParts(i)),
                                           "responses.output.content.text")
            ELSE task[i].norm.source \notin OutputTags

\* the last assistant message holds a blank fragment between two texts: the
\* two texts are returned without it
C22_Witness ==
    \E i \in Tasks :
        /\ ReachesOutput(i)
        /\ Collected(AssistantParts(i)) = "a b"
        /\ task[i].norm = Normalized("ab", "responses.output.assistant.content.text")
-----------------------------------------------------------------------------
(* C23: the pre-flight exits of onInsertClick, checked under SpecPreflight *)

\* the note onInsertClick would write to: the selected chat note, else the active one
TargetNow == IF getSelectedChatNote # NoItem THEN getSelectedChatNote ELSE activeNote

\* a click in this state is not dropped by the guard and fails one of the
\* checks made before the button is disabled
PreflightRejects ==
    /\ ~isInserting
    /\ \/ TargetNow = NoItem
       \/ Trim(textarea) = << >>
       \/ Trim(prefs.llmKey) = << >> /\ Trim(prefs.openaiApiKey) = << >>

\* the step starts no invocation and leaves the pane, the notes and the textarea alone
PreflightFrame ==
    /\ \A j \in Tasks : task'[j] = Idle
    /\ selection' = selection
    /\ noteBlocks' = noteBlocks
    /\ chatNote' = chatNote
    /\ textarea' = textarea
    /\ prefs' = prefs

\* C23: a click that onInsertClick rejects at pre-flight (no target note, empty
\* trimmed prompt, no key in llmKey or openaiApiKey) sends no request, loads
\* no PDF, leaves the selection of the pane, every note and the textarea as
\* they were
C23_PreflightFrame ==
    [][\A i \in Tasks : InsertClick(i) /\ PreflightRejects => PreflightFrame]_vars

\* a click was rejected for the missing key: the prompt is still in the
\* textarea, the chat note is still selected, nothing was written
C23_Witness ==
    /\ notices = "OpenAI API key is missing. Set it in Preferences."
    /\ Trim(textarea) # << >>
    /\ selection = << NoteA >>
    /\ noteBlocks = 0
    /\ \A j \in Tasks : task[j] = Idle
-----------------------------------------------------------------------------
(* C24: one appendChatExchange for every accepted click, checked under     *)
(* FairComposer                                                            *)

\* the invocation in slot i is past the pre-flight checks of onInsertClick
PastPreflight(i) == task[i].kind = "insert"

\* the invocation in slot i is inside appendChatExchange
InAppend(i) == task[i].kind = "insert" /\ task[i].pc = "saving"

\* slot i enters appendChatExchange in this step: one block is set on the note,
\* with the prompt of the click and, after a failed call, the error as the answer
EntersAppend(i) ==
    ~InAppend(i) /\ InAppend(i)' =>
        /\ noteBlocks' = noteBlocks + 1
        /\ task'[i].text = Trim(textarea)
        /\ task'[i].note = (IF task[i].kind = "insert" THEN task[i].note ELSE TargetNow)
        /\ task'[i].out.tag \in {"return", "throw"}
        /\ task'[i].out.tag = "throw" =>
               task'[i].ans = "(!) OpenAI error: " \o task'[i].out.err.message

\* no step but the entry into appendChatExchange sets a block on the note
WritesOnlyThere ==
    noteBlocks' # noteBlocks => \E i \in Tasks : ~InAppend(i) /\ InAppend(i)'

\* an accepted click ends only out of appendChatExchange
EndsAfterAppend(i) == PastPreflight(i) /\ ~PastPreflight(i)' => InAppend(i)

\* inside appendChatExchange the invocation makes no second call
NoSecondAppend(i) == InAppend(i) => ~PastPreflight(i)' \/ task'[i] = task[i]

\* C24: every onInsertClick that passes pre-flight reaches appendChatExchange,
\* and calls it exactly once on its target note with the prompt of the click,
\* whether the LLM call succeeded or failed; after a failure the assistant
\* text is the error notice followed by the message of the error
C24_AppendsOnce ==
    /\ [][WritesOnlyThere /\ \A i \in Tasks :
              EntersAppend(i) /\ EndsAfterAppend(i) /\ NoSecondAppend(i)]_vars
    /\ \A i \in Tasks : PastPreflight(i) ~> InAppend(i)

\* the request failed on the network and the exchange is being saved with the
\* error as the answer
C24_Witness ==
    \E i \in Tasks :
        /\ InAppend(i)
        /\ task[i].out = Throw([id |-> "TypeError#1",
                                message |-> "NetworkError when attempting to fetch resource."])
        /\ task[i].ans = "(!) OpenAI error: NetworkError when attempting to fetch resource."
        /\ task[i].text = << "h" >>
        /\ noteBlocks = 1
-----------------------------------------------------------------------------
(* C25: the textarea after appendChatExchange, checked under SpecPreflight *)

\* saveTx() rejected in slot i: the prompt is still in the textarea and the
\* failure is what the user is told
PromptKeptOnFailure(i) ==
    InsertSaveFails(i) =>
        /\ textarea' = textarea
        /\ Trim(textarea') = task[i].text
        /\ notices' = "Failed to insert (see logs)."
        /\ notices' # "Inserted to note."

\* the textarea is emptied only by an invocation whose saveTx() resolved
ClearedOnlyOnSuccess ==
    textarea # << >> /\ textarea' = << >> =>
        \E i \in Tasks : InAppend(i) /\ InsertSaved(i) /\ notices' = "Inserted to note."

\* C25: onInsertClick clears the textarea only after appendChatExchange has
\* resolved; when saving the note fails the textarea still holds the prompt,
\* "Failed to insert (see logs)." is shown and "Inserted to note." is not
C25_ClearedAfterSave ==
    [][ClearedOnlyOnSuccess /\ \A i \in Tasks : PromptKeptOnFailure(i)]_vars

\* a save has failed: the block was set on the note, the notice is the
\* failure and the prompt is still there
C25_Witness ==
    /\ notices = "Failed to insert (see logs)."
    /\ Trim(textarea) # << >>
    /\ noteBlocks = 1
    /\ ~isInserting
    /\ \A j \in Tasks : task[j] = Idle
-----------------------------------------------------------------------------
(* C26: the selection around loadPdfFilesForChatNote, checked under SpecKeys *)

\* the items of a selection, as a set
SelectedSet(sel) == { sel[k] : k \in 1..Len(sel) }

\* loadPdfFilesForChatNote returns in slot i in this step: it ran its finally block
LoadReturns(i) ==
    /\ task[i].kind = "insert"
    /\ task[i].pc = "resolving"
    /\ task'[i].pc # "resolving"

\* C26: when loadPdfFilesForChatNote returns, with files, with none or after an
\* error, the set of items selected in the pane is the set that was selected
\* when it was called, also when nothing was selected then
C26_SelectionAsFound ==
    [][\A i \in Tasks :
          LoadReturns(i) => SelectedSet(selection') = SelectedSet(task[i].prevSel)]_vars
-----------------------------------------------------------------------------
(* C27: the llmKey preference under the send actions, checked under SpecSend *)

\* the texts the dialog can show when the call of slot i returns a value
ReturnedTexts(i) ==
    { DialogText(t1.out.val) :
          t1 \in { t \in { Classify(OnFetchResolve(task[i], r), rawText) :
                               r \in ResponseHeads, rawText \in AnswersTo(task[i]) } :
                       t.pc = "callDone" /\ t.out.tag = "return" } }

\* the step stores the key of slot i as its call returns a value
SavedOnReturn(i) ==
    /\ task[i].kind \in {"send", "sendPdf"}
    /\ task[i].pc = "fetch"
    /\ task'[i] = Idle
    /\ dlgOutput' \in ReturnedTexts(i)
    /\ prefs' = [prefs EXCEPT !.llmKey = task[i].key]

\* the step is an exit of a send action without a returned value: an alert
\* before the call, "No PDF found", or the error of the call shown
ExitsWithoutAnswer ==
    \/ notices' # notices
    \/ dlgOutput' = NoPdfFound
    \/ dlgOutput' = "Error: NetworkError when attempting to fetch resource."

\* C27: Send and Send (PDF) write the llmKey preference only as their LLM call
\* returns without error; a pre-flight rejection, the "No PDF found" exit and a
\* failed call leave the stored preferences as they were
C27_KeySavedOnSuccess ==
    [][/\ prefs' # prefs => \E i \in Tasks : SavedOnReturn(i)
       /\ ExitsWithoutAnswer => prefs' = prefs]_vars

\* a call made with the typed key has returned: the key is stored and the
\* answer shown
C27_Witness ==
    /\ prefs.llmKey = PlainKey
    /\ prefs.openaiApiKey = PlainKey
    /\ dlgKey = PlainKey
    /\ dlgOutput = "hi"
    /\ \A j \in Tasks : task[j] = Idle
-----------------------------------------------------------------------------
(* C28: the guard of onChatNoteButtonClick, checked under FairToolbar *)

\* the slots in which a click on the chat-note button is running
ClickRuns == { i \in Tasks : task[i].kind = "chatNote" }

\* the slots waiting for createChatNoteForParent
Creating == { i \in Tasks : task[i].kind = "chatNote" /\ task[i].pc = "creating" }

\* at most one click runs, and isRunning is set exactly while one does
OneClickRuns ==
    /\ Cardinality(ClickRuns) <= 1
    /\ win.isRunning <=> ClickRuns # {}

\* a click made while another runs changes nothing but the count of dropped clicks
OverlapIgnored ==
    \A i \in Tasks : ChatNoteClick(i) /\ ClickRuns # {} =>
        /\ task' = task
        /\ win' = win
        /\ notices' = notices
        /\ activeNote' = activeNote

\* createChatNoteForParent is called once at a time, and at most once by a click
OneCreate ==
    /\ win'.creates # win.creates =>
           /\ win'.creates = win.creates + 1
           /\ Creating = {}
           /\ Cardinality(Creating') = 1
    /\ \A i \in Tasks : i \in Creating' /\ i \notin Creating =>
           task[i].kind = "idle" \/ task[i].pc = "finding"

\* C28: a click on the chat-note button made while an earlier
\* onChatNoteButtonClick runs is ignored, so overlapping clicks make at most
\* one createChatNoteForParent call; isRunning is false again after every
\* exit (no parent, failed creation, failed opening, success), so that a later
\* click is handled
C28_ClickGuard ==
    /\ []OneClickRuns
    /\ [][OverlapIgnored /\ OneCreate]_vars
    /\ win.isRunning ~> ~win.isRunning

\* a second click was dropped while the first waits for createChatNoteForParent
C28_Witness ==
    /\ ignored = 1
    /\ win.isRunning
    /\ win.creates = 1
    /\ Creating = {1}
    /\ task[2].kind = "idle"
-----------------------------------------------------------------------------
(* C29 and C30: what the hooks leave in the document, checked under SpecWindow *)

\* C29: after unregisterAIPanelButton(win), whatever calls of
\* registerAIPanelButton(win) and unregisterAIPanelButton(win) came before,
\* onMainWindowLoad run twice included, the document of the window holds no
\* AI button made by registerAIPanelButton
C29_NoButtonAfterUnregister ==
    [][OnMainWindowUnload => win'.aiButtons = {}]_vars

\* C30: after any calls of initChatNoteComposer and addToolbarButton on a
\* document, it holds at most one element with id "zai-chatnote-composer" and
\* at most one with id "zai-chatnote-btn"
C30_InstalledOnce ==
    /\ win.composers <= 1
    /\ win.chatBtns <= 1

\* both installers have run twice on a document with a body and a toolbar
C30_Witness ==
    /\ win.made = 2
    /\ win.adds = 2
    /\ win.container
    /\ win.chatToolbar
    /\ win.composers = 1
    /\ win.chatBtns = 1
====
